---------------------------- MODULE Spec2Model ----------------------------
(***************************************************************************)
(* A model of the travel assistant of flight_search_poc: the two-node      *)
(* conversation loop of agent.py (call_model <-> execute_tools) around one *)
(* AgentState, process_query around it, and the tool functions of tools.py *)
(* that the loop dispatches to.                                            *)
(*                                                                         *)
(* Texts are sequences of string tokens: a Python f-string becomes the     *)
(* sequence of its literal pieces and formatted values, so that the        *)
(* substring tests and regular expressions of the code become searches     *)
(* for tokens.  A date string is a record of its shape (which separators   *)
(* and which kind of month it shows) and its three numbers in the order    *)
(* they are written; parsing reads only that record.                       *)
(***************************************************************************)
EXTENDS Integers, Sequences, FiniteSets, TLC

VARIABLES
    messages,       \* AgentState["messages"]
    tool_calls,     \* AgentState["tool_calls"]
    tool_outputs,   \* AgentState["tool_outputs"]
    next,           \* AgentState["next"]
    pc,             \* where process_query is: "idle", "invoke", "returned", "raised"
    ret,            \* what process_query returned, or the exception it let through
    executed,       \* the requests TOOL_EXECUTOR.execute ran in the latest execute_tools
    rounds,         \* model calls made for the current query
    used,           \* tool requests received for the current query
    queries,        \* queries started so far
    reply,          \* the latest reply of the model endpoint
    node,           \* the node of the compiled graph that runs next
    today,          \* datetime.now().date()
    call,           \* a tool function called on its own: the call
    out,            \* ... its result
    net,            \* ... the network calls it made, in order
    session_state   \* st.session_state of the travel-assistant page

vars == <<messages, tool_calls, tool_outputs, next, pc, ret, executed, rounds,
          used, queries, reply, node, today, call, out, net, session_state>>

loopVars == <<messages, tool_calls, tool_outputs, next, pc, ret, executed,
              rounds, used, queries, reply, node>>

callVars == <<call, out, net>>

(***************************************************************************)
(* Bounds of the model.                                                    *)
(***************************************************************************)
MaxRounds == 2      \* model calls per query
MaxUsed == 2        \* tool requests per query, over all replies
MaxQueries == 2     \* queries per session
YearSpan == 1       \* years before and after the current year in date inputs

(***************************************************************************)
(* Sequences.                                                              *)
(***************************************************************************)
RECURSIVE Flatten(_)
Flatten(ss) == IF ss = <<>> THEN <<>> ELSE Head(ss) \o Flatten(Tail(ss))

Range(s) == {s[i] : i \in DOMAIN s}

Last(s) == s[Len(s)]

IsPrefix(s, t) == Len(s) <= Len(t) /\ SubSeq(t, 1, Len(s)) = s

(***************************************************************************)
(* Calendar dates: datetime.date as [y, m, d].                             *)
(***************************************************************************)
NoDate == [y |-> 0, m |-> 0, d |-> 0]

IsLeap(y) == (y % 4 = 0 /\ y % 100 # 0) \/ y % 400 = 0

DaysInMonth(y, m) ==
    IF m \in {4, 6, 9, 11} THEN 30
    ELSE IF m = 2 THEN (IF IsLeap(y) THEN 29 ELSE 28)
    ELSE 31

\* datetime(y, m, d) does not raise ValueError
ValidDate(y, m, d) ==
    /\ y \in 1..9999
    /\ m \in 1..12
    /\ d \in 1..DaysInMonth(y, m)

MkDate(y, m, d) == [y |-> y, m |-> m, d |-> d]

\* date.__lt__
DateBefore(a, b) ==
    \/ a.y < b.y
    \/ a.y = b.y /\ a.m < b.m
    \/ a.y = b.y /\ a.m = b.m /\ a.d < b.d

NextDay(a) ==
    IF a.d < DaysInMonth(a.y, a.m) THEN MkDate(a.y, a.m, a.d + 1)
    ELSE IF a.m < 12 THEN MkDate(a.y, a.m + 1, 1)
    ELSE MkDate(a.y + 1, 1, 1)

\* a variant of the addition that adds nothing
AddNoDays(a, n) == a

\* date + timedelta(days=n)
RECURSIVE AddDays(_, _)
AddDays(a, n) == IF n = 0 THEN a ELSE AddDays(NextDay(a), n - 1)

Pad2(n) == IF n < 10 THEN "0" \o ToString(n) ELSE ToString(n)

\* strftime("%Y-%m-%d"), for the four-digit years of the model
FormatYmd(a) == ToString(a.y) \o "-" \o Pad2(a.m) \o "-" \o Pad2(a.d)

MonthNames ==
    <<"January", "February", "March", "April", "May", "June", "July",
      "August", "September", "October", "November", "December">>

MonthAbbrs ==
    <<"Jan", "Feb", "Mar", "Apr", "May", "Jun", "Jul", "Aug", "Sep", "Oct",
      "Nov", "Dec">>

(***************************************************************************)
(* Date strings.  shape says how the string is written, f1 f2 f3 are its   *)
(* three numbers in the order written (a month name counts as its number): *)
(*   "D Month Y"      4 May 2026          "Month D Y"    May 4 2026        *)
(*   "D Mon Y"        4 Apr 2026          "Mon D Y"      Apr 4 2026        *)
(*   "Month D, Y"     May 4, 2026         "Dth Month Y"  4th May 2026      *)
(*   "D Month Y etc"  4 May 2026 morning                                   *)
(*   "N-N-N"  "N/N/N"  "N.N.N"   numbers and one separator                 *)
(*   "words"          no date at all (tomorrow evening)                    *)
(***************************************************************************)
MkStr(shape, f1, f2, f3) == [shape |-> shape, f1 |-> f1, f2 |-> f2, f3 |-> f3]

FourDigits(n) == n \in 1000..9999

TwoDigits(n) == n \in 0..99

\* The string as text.
DateStrText(s) ==
    CASE s.shape = "D Month Y" ->
           ToString(s.f1) \o " " \o MonthNames[s.f2] \o " " \o ToString(s.f3)
      [] s.shape = "Month D Y" ->
           MonthNames[s.f1] \o " " \o ToString(s.f2) \o " " \o ToString(s.f3)
      [] s.shape = "D Mon Y" ->
           ToString(s.f1) \o " " \o MonthAbbrs[s.f2] \o " " \o ToString(s.f3)
      [] s.shape = "Mon D Y" ->
           MonthAbbrs[s.f1] \o " " \o ToString(s.f2) \o " " \o ToString(s.f3)
      [] s.shape = "Month D, Y" ->
           MonthNames[s.f1] \o " " \o ToString(s.f2) \o ", " \o ToString(s.f3)
      [] s.shape = "Dth Month Y" ->
           ToString(s.f1) \o "th " \o MonthNames[s.f2] \o " " \o ToString(s.f3)
      [] s.shape = "D Month Y etc" ->
           ToString(s.f1) \o " " \o MonthNames[s.f2] \o " " \o ToString(s.f3)
               \o " morning"
      [] s.shape = "N-N-N" ->
           Pad2(s.f1) \o "-" \o Pad2(s.f2) \o "-" \o Pad2(s.f3)
      [] s.shape = "N/N/N" ->
           Pad2(s.f1) \o "/" \o Pad2(s.f2) \o "/" \o Pad2(s.f3)
      [] s.shape = "N.N.N" ->
           Pad2(s.f1) \o "." \o Pad2(s.f2) \o "." \o Pad2(s.f3)
      [] OTHER -> "tomorrow evening"

\* The string as the tokens a report shows.  The shape "crafted" is a string
\* that is no date and reads: x Flight 1: Price: $.
DateStrTokens(s) ==
    IF s.shape = "crafted" THEN <<"x ", "Flight 1:", " ", "Price: ", "$", ".">>
    ELSE <<DateStrText(s)>>

\* The layouts a date can be written in, and the string each gives.
Layouts ==
    {"%d %B %Y", "%B %d %Y", "%d %b %Y", "%b %d %Y", "%B %d, %Y",
     "%dth %B %Y", "%d %B %Y etc", "%Y-%m-%d", "%m/%d/%Y", "%d/%m/%Y",
     "%d-%m-%Y", "%Y/%m/%d", "%d.%m.%Y"}

Render(a, layout) ==
    CASE layout = "%d %B %Y"     -> MkStr("D Month Y", a.d, a.m, a.y)
      [] layout = "%B %d %Y"     -> MkStr("Month D Y", a.m, a.d, a.y)
      [] layout = "%d %b %Y"     -> MkStr("D Mon Y", a.d, a.m, a.y)
      [] layout = "%b %d %Y"     -> MkStr("Mon D Y", a.m, a.d, a.y)
      [] layout = "%B %d, %Y"    -> MkStr("Month D, Y", a.m, a.d, a.y)
      [] layout = "%dth %B %Y"   -> MkStr("Dth Month Y", a.d, a.m, a.y)
      [] layout = "%d %B %Y etc" -> MkStr("D Month Y etc", a.d, a.m, a.y)
      [] layout = "%Y-%m-%d"     -> MkStr("N-N-N", a.y, a.m, a.d)
      [] layout = "%m/%d/%Y"     -> MkStr("N/N/N", a.m, a.d, a.y)
      [] layout = "%d/%m/%Y"     -> MkStr("N/N/N", a.d, a.m, a.y)
      [] layout = "%d-%m-%Y"     -> MkStr("N-N-N", a.d, a.m, a.y)
      [] layout = "%Y/%m/%d"     -> MkStr("N/N/N", a.y, a.m, a.d)
      [] layout = "%d.%m.%Y"     -> MkStr("N.N.N", a.d, a.m, a.y)

\* "May" is the full and the abbreviated name of month 5.
ShowsFullMonth(s, shape) ==
    \/ s.shape = shape
    \/ shape = "D Month Y" /\ s.shape = "D Mon Y" /\ s.f2 = 5
    \/ shape = "Month D Y" /\ s.shape = "Mon D Y" /\ s.f1 = 5

ShowsAbbrMonth(s, shape) ==
    \/ s.shape = shape
    \/ shape = "D Mon Y" /\ s.shape = "D Month Y" /\ s.f2 = 5
    \/ shape = "Mon D Y" /\ s.shape = "Month D Y" /\ s.f1 = 5

DateOrNone(y, m, d) ==
    IF FourDigits(y) /\ TwoDigits(m) /\ TwoDigits(d) /\ ValidDate(y, m, d)
    THEN MkDate(y, m, d) ELSE NoDate

\* datetime.strptime(s, fmt).date(), NoDate where it raises ValueError
Strptime(s, fmt) ==
    CASE fmt = "%d %B %Y" ->
           IF ShowsFullMonth(s, "D Month Y") THEN DateOrNone(s.f3, s.f2, s.f1)
           ELSE NoDate
      [] fmt = "%B %d %Y" ->
           IF ShowsFullMonth(s, "Month D Y") THEN DateOrNone(s.f3, s.f1, s.f2)
           ELSE NoDate
      [] fmt = "%d %b %Y" ->
           IF ShowsAbbrMonth(s, "D Mon Y") THEN DateOrNone(s.f3, s.f2, s.f1)
           ELSE NoDate
      [] fmt = "%b %d %Y" ->
           IF ShowsAbbrMonth(s, "Mon D Y") THEN DateOrNone(s.f3, s.f1, s.f2)
           ELSE NoDate
      [] fmt = "%Y-%m-%d" ->
           IF s.shape = "N-N-N" THEN DateOrNone(s.f1, s.f2, s.f3) ELSE NoDate
      [] fmt = "%m/%d/%Y" ->
           IF s.shape = "N/N/N" THEN DateOrNone(s.f3, s.f1, s.f2) ELSE NoDate
      [] fmt = "%d/%m/%Y" ->
           IF s.shape = "N/N/N" THEN DateOrNone(s.f3, s.f2, s.f1) ELSE NoDate
      [] fmt = "%d-%m-%Y" ->
           IF s.shape = "N-N-N" THEN DateOrNone(s.f3, s.f2, s.f1) ELSE NoDate
      [] fmt = "%Y/%m/%d" ->
           IF s.shape = "N/N/N" THEN DateOrNone(s.f1, s.f2, s.f3) ELSE NoDate
      [] OTHER -> NoDate

\* for fmt in formats: try strptime ... break / continue
RECURSIVE TryFormats(_, _)
TryFormats(s, fmts) ==
    IF fmts = <<>> THEN NoDate
    ELSE IF Strptime(s, Head(fmts)) # NoDate THEN Strptime(s, Head(fmts))
    ELSE TryFormats(s, Tail(fmts))


(***************************************************************************)
(* Strings of the model's vocabulary: str.lower().strip(), str.isupper(),  *)
(* len() and the substring test `a in b`, as tables over the city inputs.  *)
(***************************************************************************)
CityInputs ==
    {"Delhi", "Mumbai", "DEL", "BOM", " delhi ", "New Delhi Airport",
     "Navi Mumbai", "Goa", "GOA", "Paris", "Bom", ""}

LowerStrip(s) ==
    CASE s = "Delhi" -> "delhi"
      [] s = "Mumbai" -> "mumbai"
      [] s = "DEL" -> "del"
      [] s = "BOM" -> "bom"
      [] s = " delhi " -> "delhi"
      [] s = "New Delhi Airport" -> "new delhi airport"
      [] s = "Navi Mumbai" -> "navi mumbai"
      [] s = "Goa" -> "goa"
      [] s = "GOA" -> "goa"
      [] s = "Paris" -> "paris"
      [] s = "Bom" -> "bom"
      [] OTHER -> s

\* len(city) == 3 and city.isupper()
IsAirportCode(s) == s \in {"DEL", "BOM", "GOA"}

\* a in b, for a # b and a # "": the pairs among lower-cased inputs and table names
ProperSubstrings ==
    {<<"delhi", "new delhi">>, <<"delhi", "new delhi airport">>,
     <<"new delhi", "new delhi airport">>, <<"mumbai", "navi mumbai">>,
     <<"del", "delhi">>, <<"del", "new delhi">>, <<"del", "new delhi airport">>}

Contains(b, a) == a = "" \/ a = b \/ <<a, b>> \in ProperSubstrings

\* city_to_code, in the order the dict lists it
city_to_code ==
    << <<"delhi", "DEL">>, <<"new delhi", "DEL">>, <<"mumbai", "BOM">>,
       <<"bangalore", "BLR">>, <<"bengaluru", "BLR">>, <<"hyderabad", "HYD">>,
       <<"chennai", "MAA">>, <<"kolkata", "CCU">>, <<"ahmedabad", "AMD">>,
       <<"pune", "PNQ">>, <<"jaipur", "JAI">>, <<"goa", "GOI">>,
       <<"lucknow", "LKO">>, <<"kochi", "COK">>, <<"cochin", "COK">>,
       <<"thiruvananthapuram", "TRV">>, <<"trivandrum", "TRV">>,
       <<"bhubaneswar", "BBI">>, <<"indore", "IDR">>, <<"nagpur", "NAG">>,
       <<"patna", "PAT">>, <<"chandigarh", "IXC">>, <<"srinagar", "SXR">>,
       <<"kashmir", "SXR">> >>

\* the lookup without the partial match of tools.py:333-335
MapExactOnly(city) ==
    LET normalized_city == LowerStrip(city)
        exact == {i \in DOMAIN city_to_code : city_to_code[i][1] = normalized_city}
    IN  IF IsAirportCode(city) THEN city
        ELSE IF exact # {} THEN city_to_code[CHOOSE i \in exact : TRUE][2]
        ELSE city

map_indian_city_to_airport(city) ==
    LET normalized_city == LowerStrip(city)
        exact == {i \in DOMAIN city_to_code : city_to_code[i][1] = normalized_city}
        partial == {i \in DOMAIN city_to_code :
                      \/ Contains(normalized_city, city_to_code[i][1])
                      \/ Contains(city_to_code[i][1], normalized_city)}
        first(S) == CHOOSE i \in S : \A j \in S : i <= j
    IN  IF IsAirportCode(city) THEN city
        ELSE IF exact # {} THEN city_to_code[first(exact)][2]
        ELSE IF partial # {} THEN city_to_code[first(partial)][2]
        ELSE city

(***************************************************************************)
(* generate_indian_flight_data.  The two random draws are parameters:      *)
(* rng.n is random.randint(5, 10), and rng.hi is the set of record indexes *)
(* whose random.random() comes out at the top of its range (the others at  *)
(* the bottom), so the price factor 0.95 + r * 0.2 is 1.149 or 0.95.       *)
(***************************************************************************)
airlines ==
    <<"Air India", "IndiGo", "SpiceJet", "Vistara", "Air Asia India", "Go Air",
      "Alliance Air">>

FlightNumber(airline, i) ==
    CASE airline = "Air India" -> "AI" \o ToString(100 + i)
      [] airline = "IndiGo" -> "6E" \o ToString(100 + i * 10)
      [] airline = "SpiceJet" -> "SG" \o ToString(100 + i * 5)
      [] airline = "Vistara" -> "UK" \o ToString(100 + i * 8)
      [] airline = "Air Asia India" -> "I5" \o ToString(100 + i * 7)
      [] airline = "Go Air" -> "G8" \o ToString(100 + i * 6)
      [] OTHER -> "9I" \o ToString(100 + i * 4)

\* int(base_price * (0.95 + random.random() * 0.2)), in exact arithmetic:
\* base_price = 500 * (5 + i) * s/10 * l/10 * p/100 and the factor is f/1000.
Price(i, stops, duration_hours, airline, f) ==
    LET s == IF stops > 0 THEN 9 ELSE 10
        l == IF duration_hours > 2 THEN 12 ELSE 10
        p == IF airline \in {"Vistara", "Air India"} THEN 115 ELSE 100
    IN  ((5 + i) * s * l * p * f) \div 20000

Flight(i, num_flights, date_str, origin, destination, f) ==
    LET airline == airlines[(i % Len(airlines)) + 1]
        hour == ((6 + (i * 2)) % 15) + 6
        minute == (i * 13) % 60
        duration_hours == 1 + (i % 3)
        duration_minutes == (i * 10) % 60
        arrival_hour == (hour + duration_hours) % 24
        arrival_minute == (minute + duration_minutes) % 60
        \* i < num_flights * 0.7
        stops == IF i * 10 < num_flights * 7 THEN 0 ELSE 1
    IN  [airline |-> airline,
         flight_number |-> FlightNumber(airline, i),
         origin |-> origin,
         destination |-> destination,
         departure_date |-> date_str,
         departure_time |-> Pad2(hour) \o ":" \o Pad2(minute),
         arrival_time |-> Pad2(arrival_hour) \o ":" \o Pad2(arrival_minute),
         duration |-> ToString(duration_hours) \o "h "
                         \o ToString(duration_minutes) \o "m",
         price |-> Price(i, stops, duration_hours, airline, f),
         seats_available |-> 5 + ((i * 2) % 20),
         stops |-> stops]

\* list.sort(key=price): stable, by insertion from the left
RECURSIVE InsertByPrice(_, _)
InsertByPrice(sorted, x) ==
    IF sorted = <<>> THEN <<x>>
    ELSE IF Last(sorted).price <= x.price THEN Append(sorted, x)
    ELSE Append(InsertByPrice(SubSeq(sorted, 1, Len(sorted) - 1), x), Last(sorted))

RECURSIVE SortByPrice(_)
\* a variant that leaves the records in the order generated
Unsorted(s) == s

SortByPrice(s) ==
    IF s = <<>> THEN <<>>
    ELSE InsertByPrice(SortByPrice(SubSeq(s, 1, Len(s) - 1)), Last(s))

LowFactor == 950

HighFactor == 1149

generate_indian_flight_data(date_str, origin, destination, rng) ==
    SortByPrice([k \in 1..rng.n |->
        Flight(k - 1, rng.n, date_str, origin, destination,
               IF (k - 1) \in rng.hi THEN HighFactor ELSE LowFactor)])

FlightRngs == {[n |-> n, hi |-> hi] : n \in 5..10, hi \in {{}, {0, 3}}}

(***************************************************************************)
(* extract_flight_info.  A result is the tuple (text, tag, data).          *)
(***************************************************************************)
Result(text, tag, data) == [text |-> text, tag |-> tag, data |-> data]

date_formats ==
    <<"%d %B %Y", "%B %d %Y", "%d %b %Y", "%b %d %Y", "%Y-%m-%d", "%m/%d/%Y",
      "%d/%m/%Y">>

\* parts = date_str.split(); the rebuilt "{day} {month} {year}", when parts[0]
\* is a number and a month name and a four-digit year are among the parts.
RebuiltDateStr(s) ==
    IF s.shape \in {"D Month Y", "D Month Y etc"} /\ FourDigits(s.f3)
    THEN MkStr("D Month Y", s.f1, s.f2, s.f3)
    ELSE IF s.shape = "D Mon Y" /\ FourDigits(s.f3)
    THEN MkStr("D Mon Y", s.f1, s.f2, s.f3)
    ELSE s

\* lines 121-153: the date the formats or the rebuilt string give, or NoDate
ParseFlightDate(s) ==
    IF TryFormats(s, date_formats) # NoDate THEN TryFormats(s, date_formats)
    ELSE TryFormats(RebuiltDateStr(s), date_formats)

\* date_str as the response shows it: the fallback reassigns it
ShownDateStr(s) ==
    IF TryFormats(s, date_formats) # NoDate THEN s ELSE RebuiltDateStr(s)

(***************************************************************************)
(* utils.parse_date: nine strptime formats in order, then the components   *)
(* that extract_date_components finds with its regular expressions.  A     *)
(* component that is not found (Python None) is -1.                        *)
(***************************************************************************)
parse_date_formats ==
    <<"%d %B %Y", "%B %d %Y", "%d %b %Y", "%b %d %Y", "%Y-%m-%d", "%m/%d/%Y",
      "%d/%m/%Y", "%d-%m-%Y", "%Y/%m/%d">>

\* the maximal runs of digits of the string, in order, as numbers; in every
\* shape each run is a whole word, but for the ordinal "th" after a day
NumberWords(s) ==
    CASE s.shape \in {"D Month Y", "D Mon Y", "Dth Month Y", "D Month Y etc"} ->
           <<s.f1, s.f3>>
      [] s.shape \in {"Month D Y", "Mon D Y", "Month D, Y"} -> <<s.f2, s.f3>>
      [] s.shape \in {"N-N-N", "N/N/N", "N.N.N"} -> <<s.f1, s.f2, s.f3>>
      [] s.shape = "crafted" -> <<1>>
      [] OTHER -> <<>>

\* the month a name or abbreviation of month_names in the lower-cased string gives
NamedMonth(s) ==
    CASE s.shape \in {"D Month Y", "D Mon Y", "Dth Month Y", "D Month Y etc"} -> s.f2
      [] s.shape \in {"Month D Y", "Mon D Y", "Month D, Y"} -> s.f1
      [] OTHER -> -1

FirstOr(xs, none) == IF xs = <<>> THEN none ELSE Head(xs)

\* \b(20\d{2})\b
YearWord(n) == n \in 2000..2099

\* \b([0-3]?[0-9])(st|nd|rd|th)?\b, for a number written with one or two digits
DayWord(n) == n \in 0..39

\* \b([0-1]?[0-9])[/.-]([0-3]?[0-9])\b: the first pair of neighbouring
\* numbers of a numeric string that fits, <<>> when none does
MonthMatch(s) ==
    IF s.shape \notin {"N-N-N", "N/N/N", "N.N.N"} THEN <<>>
    ELSE IF s.f1 \in 0..19 /\ DayWord(s.f2) THEN <<s.f1, s.f2>>
    ELSE IF s.f2 \in 0..19 /\ DayWord(s.f3) THEN <<s.f2, s.f3>>
    ELSE <<>>

extract_date_components(s) ==
    LET year == FirstOr(SelectSeq(NumberWords(s), YearWord), -1)
        found == FirstOr(SelectSeq(NumberWords(s), DayWord), -1)
        day == IF found > 31 THEN -1 ELSE found
        m == MonthMatch(s)
    IN  IF NamedMonth(s) # -1 THEN [day |-> day, month |-> NamedMonth(s), year |-> year]
        ELSE IF m = <<>> \/ m[1] > 12 THEN [day |-> day, month |-> -1, year |-> year]
        ELSE IF day = -1 /\ m[2] <= 31 THEN [day |-> m[2], month |-> m[1], year |-> year]
        ELSE [day |-> day, month |-> m[1], year |-> year]

\* the formats of lines 17-27 with '%d/%m/%Y' tried before '%m/%d/%Y'
ParseDateDayFirst(s) ==
    TryFormats(s, <<"%d %B %Y", "%B %d %Y", "%d %b %Y", "%b %d %Y", "%Y-%m-%d",
                    "%d/%m/%Y", "%m/%d/%Y", "%d-%m-%Y", "%Y/%m/%d">>)

parse_date(s) ==
    LET c == extract_date_components(s)
    IN  IF TryFormats(s, parse_date_formats) # NoDate
        THEN TryFormats(s, parse_date_formats)
        ELSE IF c.day > 0 /\ c.month > 0 /\ c.year > 0
        THEN DateOrNone(c.year, c.month, c.day)
        ELSE NoDate

RupeeSign == "₹"

FlightLines(i, flight) ==
    <<"Flight " \o ToString(i) \o ":", " ", flight.airline, " ",
      flight.flight_number, "\n",
      "Route: ", flight.origin, " to ", flight.destination, "\n",
      "Date: ", flight.departure_date, "\n",
      "Departure: ", flight.departure_time, " from ", flight.origin, "\n",
      "Arrival: ", flight.arrival_time, " at ", flight.destination, "\n",
      "Duration: ", flight.duration, "\n",
      "Stops: ", ToString(flight.stops), "\n",
      "Price: ", RupeeSign, ToString(flight.price), "\n",
      "Seats available: ", ToString(flight.seats_available), "\n\n">>

FlightReport(date_str, origin, destination, flight_data) ==
    <<"Flight information", " for ">> \o DateStrTokens(date_str)
    \o <<" from ", origin, " to ", destination, ":", "\n\n">>
    \o Flatten([i \in 1..Len(flight_data) |-> FlightLines(i, flight_data[i])])

PastDateText ==
    <<"I'm sorry, but you've selected a date in the past. Please choose a future date for your flight search.">>

extract_flight_info(date_str, origin, destination, now, rng) ==
    LET parsed == ParseFlightDate(date_str)
        parsed_date == IF parsed = NoDate THEN AddDays(now, 7) ELSE parsed
        formatted_date == FormatYmd(parsed_date)
        o == map_indian_city_to_airport(origin)
        d == map_indian_city_to_airport(destination)
        flight_data == generate_indian_flight_data(formatted_date, o, d, rng)
    IN  IF DateBefore(parsed_date, now)
        THEN Result(PastDateText, "error", <<>>)
        ELSE Result(FlightReport(ShownDateStr(date_str), o, d, flight_data),
                    "flight", flight_data)


(***************************************************************************)
(* is_past_date(query) of tools.py.  A query is its words (lower-cased     *)
(* substrings the code looks for) and the date strings embedded in it, in  *)
(* the order written.                                                      *)
(***************************************************************************)
Query(words, dates) == [words |-> words, dates |-> dates]

\* Which of date_patterns[0..3] finds the string (none: -1).  The patterns
\* know full month names only, want whitespace right after the day, and the
\* numeric ones want the four-digit year first or last.
PatternOf(s) ==
    IF /\ \/ s.shape \in {"D Month Y", "D Month Y etc"}
          \/ s.shape = "D Mon Y" /\ s.f2 = 5
       /\ TwoDigits(s.f1) /\ FourDigits(s.f3)
    THEN 0
    ELSE IF /\ \/ s.shape \in {"Month D Y", "Month D, Y"}
               \/ s.shape = "Mon D Y" /\ s.f1 = 5
            /\ TwoDigits(s.f2) /\ FourDigits(s.f3)
    THEN 1
    ELSE IF /\ s.shape \in {"N-N-N", "N/N/N"}
            /\ TwoDigits(s.f1) /\ TwoDigits(s.f2) /\ FourDigits(s.f3)
    THEN 2
    ELSE IF /\ s.shape \in {"N-N-N", "N/N/N"}
            /\ FourDigits(s.f1) /\ TwoDigits(s.f2) /\ TwoDigits(s.f3)
    THEN 3
    ELSE -1

\* the groups of a match as (day, month_num, year)
MatchDay(s) == IF PatternOf(s) \in {0, 2} THEN s.f1
               ELSE IF PatternOf(s) = 1 THEN s.f2 ELSE s.f3

MatchMonth(s) == IF PatternOf(s) \in {0, 3} THEN s.f2
                 ELSE IF PatternOf(s) = 1 THEN s.f1 ELSE s.f2

MatchYear(s) == IF PatternOf(s) = 3 THEN s.f1 ELSE s.f3

\* date_obj < current_date, False where datetime(...) raises
MatchIsPast(s, now) ==
    /\ PatternOf(s) >= 0
    /\ ValidDate(MatchYear(s), MatchMonth(s), MatchDay(s))
    /\ DateBefore(MkDate(MatchYear(s), MatchMonth(s), MatchDay(s)), now)

RECURSIVE SelectSeq2(_, _)
SelectSeq2(s, p) ==
    IF s = <<>> THEN <<>>
    ELSE (IF PatternOf(Head(s)) = p THEN <<Head(s)>> ELSE <<>>)
         \o SelectSeq2(Tail(s), p)

\* the matches in the order the two loops visit them
MatchOrder(dates) ==
    SelectSeq2(dates, 0) \o SelectSeq2(dates, 1) \o SelectSeq2(dates, 2)
        \o SelectSeq2(dates, 3)

\* `month` stays bound to the month name of the latest pattern 0 or 1 match
RECURSIVE ScanMatches(_, _, _)
ScanMatches(ms, month, now) ==
    IF ms = <<>> THEN ""
    ELSE LET s == Head(ms)
             month2 == IF PatternOf(s) \in {0, 1}
                       THEN MonthNames[MatchMonth(s)] ELSE month
         IN  IF MatchIsPast(s, now)
             THEN ToString(MatchDay(s)) \o " "
                    \o (IF month2 # "" THEN month2 ELSE ToString(MatchMonth(s)))
                    \o " " \o ToString(MatchYear(s))
             ELSE ScanMatches(Tail(ms), month2, now)

\* "" stands for None
is_past_date(query, now) == ScanMatches(MatchOrder(query.dates), "", now)

(***************************************************************************)
(* web_search_flights.  env is what the network does: env.search is the    *)
(* search API ("raise", a status other than 200, or "200"), env.organic    *)
(* its results (each with or without a link), env.fetch the page fetch     *)
(* ("raise", "404", "200"), env.long whether the page has over 5000        *)
(* characters.  The value is the text returned and the network calls made. *)
(***************************************************************************)
IndianCities ==
    {"delhi", "mumbai", "bangalore", "chennai", "kolkata", "hyderabad", "pune",
     "ahmedabad", "jaipur", "lucknow", "kochi", "goa"}

IntlMarkers == {"international", "london", "new york", "dubai", "singapore"}

RECURSIVE JoinWords(_)
JoinWords(ws) ==
    IF ws = <<>> THEN ""
    ELSE IF Len(ws) = 1 THEN Head(ws)
    ELSE Head(ws) \o " " \o JoinWords(Tail(ws))

QueryText(query) ==
    JoinWords(query.words \o [i \in DOMAIN query.dates |-> DateStrText(query.dates[i])])

\* lines 27-37
RewriteQuery(query) ==
    LET q1 == IF /\ Range(query.words) \cap IndianCities = {}
                 /\ Range(query.words) \cap IntlMarkers = {}
              THEN Query(<<"India">> \o query.words, query.dates)
              ELSE query
    IN  IF "flight" \notin Range(q1.words) /\ "flights" \notin Range(q1.words)
        THEN Query(<<"flight">> \o q1.words, q1.dates)
        ELSE q1

ResultLines(i, r) ==
    <<"Result " \o ToString(i) \o ":", "\n",
      "Title: ", r.title, "\n",
      "Description: ", r.snippet, "\n",
      "URL: ", (IF r.link = "" THEN "No link" ELSE r.link), "\n\n">>

CompiledResults(query, organic) ==
    <<"Web search results for flight information regarding: ", QueryText(query),
      "\n\n">>
    \o Flatten([i \in 1..Len(organic) |-> ResultLines(i, organic[i])])

Effect(text, calls) == [text |-> text, net |-> calls]

\* a variant that goes to the search API without looking at the dates
SearchWithoutDateCheck(query, env, now) ==
    Effect(CompiledResults(RewriteQuery(query), env.organic), <<"POST search">>)

\* a variant without the inner try of lines 79-93: a page fetch that raises
\* is caught by the outer except of line 98
SearchFetchUnguarded(query, env, now) ==
    LET past_date == is_past_date(query, now)
        q == RewriteQuery(query)
        compiled == CompiledResults(q, env.organic)
    IN  IF past_date # ""
        THEN Effect(<<"I'm sorry, but the date in your query (", past_date,
                      ") appears to be in the past. Flight bookings can only be made for future dates. Please provide a future date for your travel plans.">>,
                    <<>>)
        ELSE IF env.search = "raise"
        THEN Effect(<<"Error searching for flight information: ",
                      "ConnectionError">>, <<"POST search">>)
        ELSE IF env.search # "200"
        THEN Effect(<<"Error searching for flight information: HTTP ",
                      env.search>>, <<"POST search">>)
        ELSE IF env.organic = <<>>
        THEN Effect(<<"No flight information found. Please try a more specific query.">>,
                    <<"POST search">>)
        ELSE IF env.organic[1].link = ""
        THEN Effect(compiled, <<"POST search">>)
        ELSE IF env.fetch = "raise"
        THEN Effect(<<"Error searching for flight information: ", "ConnectTimeout">>,
                    <<"POST search", "GET page">>)
        ELSE IF env.fetch # "200"
        THEN Effect(compiled, <<"POST search", "GET page">>)
        ELSE Effect(compiled \o <<"Detailed information from top result:", "\n",
                                  (IF env.long THEN "main_text[:5000]" \o "..."
                                   ELSE "main_text"), "\n\n">>,
                    <<"POST search", "GET page">>)

web_search_flights(query, env, now) ==
    LET past_date == is_past_date(query, now)
        q == RewriteQuery(query)
        compiled == CompiledResults(q, env.organic)
    IN  IF past_date # ""
        THEN Effect(<<"I'm sorry, but the date in your query (", past_date,
                      ") appears to be in the past. Flight bookings can only be made for future dates. Please provide a future date for your travel plans.">>,
                    <<>>)
        ELSE IF env.search = "raise"
        THEN Effect(<<"Error searching for flight information: ",
                      "ConnectionError">>, <<"POST search">>)
        ELSE IF env.search # "200"
        THEN Effect(<<"Error searching for flight information: HTTP ",
                      env.search>>, <<"POST search">>)
        ELSE IF env.organic = <<>>
        THEN Effect(<<"No flight information found. Please try a more specific query.">>,
                    <<"POST search">>)
        ELSE IF env.organic[1].link = ""
        THEN Effect(compiled, <<"POST search">>)
        ELSE IF env.fetch = "raise"
        THEN Effect(compiled \o <<"Could not fetch detailed information: ",
                                  "ConnectTimeout", "\n\n">>,
                    <<"POST search", "GET page">>)
        ELSE IF env.fetch # "200"
        THEN Effect(compiled, <<"POST search", "GET page">>)
        ELSE Effect(compiled \o <<"Detailed information from top result:", "\n",
                                  (IF env.long THEN "main_text[:5000]" \o "..."
                                   ELSE "main_text"), "\n\n">>,
                    <<"POST search", "GET page">>)


(***************************************************************************)
(* plan_itinerary, get_destination_info and generate_itinerary.            *)
(* Every random.choice(xs) is Pick(xs, rng, day, slot): rng.base and       *)
(* rng.stride decide which element the call of that day and slot draws.      *)
(***************************************************************************)
destinations ==
    << [name |-> "Kashmir",
        highlights |-> <<"Dal Lake", "Gulmarg", "Pahalgam", "Sonamarg",
                         "Mughal Gardens", "Shalimar Bagh">>,
        cuisine |-> <<"Rogan Josh", "Yakhni", "Dum Aloo", "Kahwa">>,
        activities |-> <<"Shikara Ride", "Skiing", "Trekking", "Cable Car Ride",
                         "Shopping for Pashmina", "Houseboat Stay">>,
        accommodation |-> <<"Houseboat on Dal Lake", "Luxury Resorts in Gulmarg",
                            "Hotels in Srinagar">>],
       [name |-> "Goa",
        highlights |-> <<"Baga Beach", "Calangute Beach", "Anjuna Beach",
                         "Dudhsagar Falls", "Fort Aguada", "Basilica of Bom Jesus">>,
        cuisine |-> <<"Seafood", "Vindaloo", "Xacuti", "Feni">>,
        activities |-> <<"Beach Activities", "Water Sports", "Nightlife",
                         "Spice Plantation Tour", "Church Visits",
                         "Beach Shack Dining">>,
        accommodation |-> <<"Beach Resorts", "Boutique Hotels", "Luxury Villas">>],
       [name |-> "Kerala",
        highlights |-> <<"Alleppey Backwaters", "Munnar", "Kovalam Beach",
                         "Thekkady", "Wayanad", "Kochi">>,
        cuisine |-> <<"Appam with Stew", "Kerala Fish Curry", "Puttu", "Avial">>,
        activities |-> <<"Houseboat Stay", "Ayurvedic Treatments", "Wildlife Safari",
                         "Tea Gardens Visit", "Cultural Performances",
                         "Backwater Cruise">>,
        accommodation |-> <<"Houseboats", "Beach Resorts", "Plantation Stays",
                            "Ayurvedic Retreats">>],
       [name |-> "Rajasthan",
        highlights |-> <<"Jaipur", "Udaipur", "Jodhpur", "Jaisalmer", "Pushkar",
                         "Ranthambore">>,
        cuisine |-> <<"Dal Baati Churma", "Laal Maas", "Ker Sangri", "Ghevar">>,
        activities |-> <<"Palace Tours", "Desert Safari", "Elephant Ride",
                         "City Tours", "Shopping for Handicrafts",
                         "Cultural Performances">>,
        accommodation |-> <<"Heritage Hotels", "Palace Hotels", "Desert Camps",
                            "Luxury Resorts">>],
       [name |-> "Himachal Pradesh",
        highlights |-> <<"Shimla", "Manali", "Dharamshala", "Dalhousie", "Kasol",
                         "Spiti Valley">>,
        cuisine |-> <<"Sidu", "Dham", "Chha Gosht", "Babru">>,
        activities |-> <<"Trekking", "Paragliding", "River Rafting", "Camping",
                         "Cultural Exploration", "Hot Springs">>,
        accommodation |-> <<"Mountain Resorts", "Cottages", "Homestays",
                            "Luxury Hotels">>] >>

\* the destinations given to plan_itinerary, and destination.strip().title()
DestinationInputs == {"Goa", " goa beach ", "kerala", "Himachal", "Atlantis", ""}

StripTitle(s) ==
    CASE s = " goa beach " -> "Goa Beach"
      [] s = "kerala" -> "Kerala"
      [] OTHER -> s

\* dest.lower() in destination.lower() or destination.lower() in dest.lower()
DestinationMatches(dest, destination) ==
    \/ destination = ""
    \/ dest = destination
    \/ dest = "Goa" /\ destination = "Goa Beach"
    \/ dest = "Himachal Pradesh" /\ destination = "Himachal"

NoInfo == [name |-> ""]

\* NoInfo where the function raises: the generic profile of lines 488-497
\* reads `duration`, which get_destination_info does not define (NameError)
get_destination_info(destination) ==
    LET hits == {i \in DOMAIN destinations :
                    DestinationMatches(destinations[i].name, destination)}
    IN  IF hits # {} THEN destinations[CHOOSE i \in hits : \A j \in hits : i <= j]
        ELSE NoInfo

\* str.lower() of the accommodation options
Lower(s) ==
    CASE s = "Houseboat on Dal Lake" -> "houseboat on dal lake"
      [] s = "Luxury Resorts in Gulmarg" -> "luxury resorts in gulmarg"
      [] s = "Hotels in Srinagar" -> "hotels in srinagar"
      [] s = "Beach Resorts" -> "beach resorts"
      [] s = "Boutique Hotels" -> "boutique hotels"
      [] s = "Luxury Villas" -> "luxury villas"
      [] s = "Houseboats" -> "houseboats"
      [] s = "Plantation Stays" -> "plantation stays"
      [] s = "Ayurvedic Retreats" -> "ayurvedic retreats"
      [] s = "Heritage Hotels" -> "heritage hotels"
      [] s = "Palace Hotels" -> "palace hotels"
      [] s = "Desert Camps" -> "desert camps"
      [] s = "Luxury Resorts" -> "luxury resorts"
      [] s = "Mountain Resorts" -> "mountain resorts"
      [] s = "Cottages" -> "cottages"
      [] s = "Homestays" -> "homestays"
      [] s = "Luxury Hotels" -> "luxury hotels"
      [] OTHER -> s

\* interest.lower() in activity.lower(), over the interests of the inputs
InterestInputs == {<<>>, <<"beach", "food">>, <<"water">>, <<"culture">>}

InterestIn(interest, activity) ==
    \/ interest = "beach" /\ activity \in {"Beach Activities", "Beach Shack Dining"}
    \/ interest = "water" /\ activity \in {"Water Sports", "Backwater Cruise"}

SlotNo(slot) ==
    CASE slot = "checkin" -> 0 [] slot = "lunch" -> 1 [] slot = "stay" -> 2
      [] slot = "morning" -> 3 [] slot = "afternoon" -> 4 [] slot = "try" -> 5
      [] OTHER -> 6

Pick(xs, rng, day, slot) ==
    xs[((rng.base + day * rng.stride + SlotNo(slot)) % Len(xs)) + 1]

ItineraryRngs == {[base |-> 0, stride |-> 0], [base |-> 1, stride |-> 1],
                  [base |-> 2, stride |-> 5]}

Values(d) == {d[k] : k \in DOMAIN d}

\* [x for x in pool if not any(x in d.values() for d in itinerary)], the
\* whole pool again when that is empty
Remaining(pool, itinerary) ==
    LET rest == SelectSeq(pool, LAMBDA x :
                    ~\E i \in DOMAIN itinerary : x \in Values(itinerary[i]))
    IN  IF rest = <<>> THEN pool ELSE rest

\* the activities the two loops of lines 552-560 meet with a match, in order
RECURSIVE InterestMatches(_, _)
InterestMatches(interests, acts) ==
    IF interests = <<>> THEN <<>>
    ELSE SelectSeq(acts, LAMBDA a : InterestIn(Head(interests), a))
         \o InterestMatches(Tail(interests), acts)

ArrivalDay(destination, info, rng) ==
    [title |-> "Arrival in " \o destination,
     morning |-> "Arrival in " \o destination \o ". Check-in to your "
                   \o Lower(Pick(info.accommodation, rng, 1, "checkin")) \o ".",
     afternoon |-> "Rest and refresh. Have lunch at a local restaurant sampling "
                   \o Pick(info.cuisine, rng, 1, "lunch") \o ".",
     evening |-> "Brief orientation walk around your accommodation area. Dinner at a recommended local restaurant.",
     accommodation |-> Pick(info.accommodation, rng, 1, "stay") \o " in "
                   \o destination,
     notes |-> "Take it easy on your first day to acclimatize to the new surroundings."]

DepartureDay(destination) ==
    [title |-> "Exploring " \o destination,
     morning |-> "Last-minute shopping for souvenirs and gifts.",
     afternoon |-> "Check-out from accommodation. Enjoy a farewell lunch.",
     evening |-> "Departure from " \o destination \o " with wonderful memories.",
     notes |-> "Keep some buffer time for unexpected delays before your departure."]

RegularDay(day, destination, info, interests, itinerary, rng) ==
    LET remaining_highlights == Remaining(info.highlights, itinerary)
        remaining_activities == Remaining(info.activities, itinerary)
        matches == InterestMatches(interests, remaining_activities)
        morning_activity ==
            IF Len(matches) >= 1
            THEN "Visit " \o Pick(remaining_highlights, rng, day, "morning")
                   \o " - " \o matches[1]
            ELSE "Visit " \o Pick(remaining_highlights, rng, day, "morning")
        afternoon_activity ==
            IF Len(matches) >= 2
            THEN "Experience " \o matches[2] \o " at "
                   \o Pick(remaining_highlights, rng, day, "afternoon")
            ELSE "Explore " \o Pick(remaining_highlights, rng, day, "afternoon")
                   \o ". Try " \o Pick(info.activities, rng, day, "try")
    IN  [title |-> "Exploring " \o destination,
         morning |-> morning_activity,
         afternoon |-> afternoon_activity,
         evening |-> "Enjoy " \o Pick(info.cuisine, rng, day, "dinner")
                   \o " for dinner. Experience the local nightlife or relax at your accommodation.",
         accommodation |-> Pick(info.accommodation, rng, day, "stay") \o " in "
                   \o destination,
         notes |-> "Adjust this day's schedule based on weather conditions and your energy level."]

\* the loop with the test of line 525 placed before the test of line 516
RECURSIVE DepartureFirstUpTo(_, _, _, _, _, _)
DepartureFirstUpTo(day, destination, duration, info, interests, rng) ==
    IF day <= 0 THEN <<>>
    ELSE LET itinerary == DepartureFirstUpTo(day - 1, destination, duration, info,
                                             interests, rng)
         IN  Append(itinerary,
                    IF day = duration THEN DepartureDay(destination)
                    ELSE IF day = 1 THEN ArrivalDay(destination, info, rng)
                    ELSE RegularDay(day, destination, info, interests, itinerary, rng))

\* the itinerary after the first `day` passes of the loop of line 511
RECURSIVE ItineraryUpTo(_, _, _, _, _, _)
ItineraryUpTo(day, destination, duration, info, interests, rng) ==
    IF day <= 0 THEN <<>>
    ELSE LET itinerary == ItineraryUpTo(day - 1, destination, duration, info,
                                        interests, rng)
         IN  Append(itinerary,
                    IF day = 1 THEN ArrivalDay(destination, info, rng)
                    ELSE IF day = duration THEN DepartureDay(destination)
                    ELSE RegularDay(day, destination, info, interests, itinerary, rng))

\* the loop over range(1, duration) instead of range(1, duration + 1)
ItineraryWithoutLastDay(destination, duration, destination_info, interests, rng) ==
    ItineraryUpTo(duration - 1, destination, duration, destination_info, interests, rng)

generate_itinerary(destination, duration, destination_info, interests, rng) ==
    ItineraryUpTo(duration, destination, duration, destination_info, interests, rng)

DayLines(i, day) ==
    <<"Day " \o ToString(i) \o ":", " ", day.title, "\n",
      "Morning:", " ", day.morning, "\n",
      "Afternoon:", " ", day.afternoon, "\n",
      "Evening:", " ", day.evening, "\n">>
    \o (IF "accommodation" \in DOMAIN day
        THEN <<"Accommodation:", " ", day.accommodation, "\n">> ELSE <<>>)
    \o (IF "notes" \in DOMAIN day THEN <<"Notes:", " ", day.notes, "\n">> ELSE <<>>)
    \o <<"\n">>

ItineraryClosing ==
    "This itinerary is customized based on your interests and the destination's highlights. You can adjust the activities based on your preferences and travel pace."

plan_itinerary(destination, duration, interests, rng) ==
    LET dest == StripTitle(destination)
        destination_info == get_destination_info(dest)
        itinerary_data == generate_itinerary(dest, duration, destination_info,
                                             interests, rng)
    IN  IF destination_info = NoInfo
        THEN Result(<<"Error creating itinerary: ", "name 'duration' is not defined">>,
                    "error", <<>>)
        ELSE Result(<<"Travel Itinerary for ", dest, " - ", ToString(duration),
                      " days", "\n\n">>
                    \o Flatten([i \in 1..Len(itinerary_data) |->
                                    DayLines(i, itinerary_data[i])])
                    \o <<ItineraryClosing>>,
                    "itinerary", itinerary_data)

(***************************************************************************)
(* The state before any query, and a tool function called on its own.      *)
(***************************************************************************)
NoCall == [fn |-> "none"]

NoOut == [tag |-> "none"]

NoRet == [kind |-> "none"]

NoReply == [content |-> <<>>, tool_calls |-> <<>>]

Todays == {MkDate(2026, 11, 2), MkDate(2026, 2, 27)}

LoopIdle ==
    /\ messages = <<>>
    /\ tool_calls = <<>>
    /\ tool_outputs = <<>>
    /\ next = ""
    /\ pc = "idle"
    /\ ret = NoRet
    /\ executed = <<>>
    /\ rounds = 0
    /\ used = 0
    /\ queries = 0
    /\ reply = NoReply
    /\ node = ""

\* the Python None, and a value that is not None
None == [none |-> TRUE]

Some(v) == [none |-> FALSE, val |-> v]

\* st.session_state after the three initialisations of the page script
NewSession == [messages |-> <<>>, flight_data |-> None, itinerary_data |-> None]

InitCalls ==
    /\ LoopIdle
    /\ today \in Todays
    /\ call = NoCall
    /\ out = NoOut
    /\ net = <<>>
    /\ session_state = NewSession

\* Dates written into the inputs: valid and invalid ones, around today.
DayInputs == {1, 2, 12, 13, 28, 30, 31}

DateInputs ==
    {MkDate(y, m, d) : y \in (2026 - YearSpan)..(2026 + YearSpan), m \in 1..12,
                       d \in DayInputs}

\* the calendar date the writer of Render(a, layout) means
Denotes(a) == IF ValidDate(a.y, a.m, a.d) THEN a ELSE NoDate

CallExtractFlightInfo ==
    /\ call = NoCall
    /\ \E a \in DateInputs, layout \in Layouts, rng \in {r \in FlightRngs : r.n \in {5, 10}} :
        /\ call' = [fn |-> "extract_flight_info", date_str |-> Render(a, layout),
                    layout |-> layout, denotes |-> Denotes(a),
                    origin |-> "Delhi", destination |-> "Mumbai"]
        /\ out' = extract_flight_info(Render(a, layout), "Delhi", "Mumbai", today, rng)
        /\ net' = <<>>
        /\ UNCHANGED <<loopVars, today, session_state>>

CallExtractFlightInfoNoDate ==
    /\ call = NoCall
    /\ \E origin \in CityInputs, destination \in {"Mumbai", "Paris"}, rng \in FlightRngs :
        /\ call' = [fn |-> "extract_flight_info",
                    date_str |-> MkStr("words", 0, 0, 0),
                    layout |-> "", denotes |-> NoDate,
                    origin |-> origin, destination |-> destination]
        /\ out' = extract_flight_info(MkStr("words", 0, 0, 0), origin, destination,
                                      today, rng)
        /\ net' = <<>>
        /\ UNCHANGED <<loopVars, today, session_state>>

NextFlightInfo == CallExtractFlightInfo \/ CallExtractFlightInfoNoDate

SpecFlightInfo == InitCalls /\ [][NextFlightInfo]_vars

\* C9: for every date string that denotes a calendar date strictly before the
\* current date, in any layout, extract_flight_info returns the past-date
\* rejection (the apology, tag "error", no records), never flight records.
C9_PastDateAlwaysRejected ==
    (/\ call.fn = "extract_flight_info"
     /\ call.denotes # NoDate
     /\ DateBefore(call.denotes, today))
    => (out.tag = "error" /\ out.data = <<>> /\ out.text = PastDateText)


(***************************************************************************)
(* web_search_flights called on its own, over queries with up to two       *)
(* embedded dates and over what the network can do.                        *)
(***************************************************************************)
SearchHit(link) == [title |-> "Cheap flights", snippet |-> "Compare fares", link |-> link]

Env(search, organic, fetch, long) ==
    [search |-> search, organic |-> organic, fetch |-> fetch, long |-> long]

NetworkInputs ==
    {Env("raise", <<>>, "200", FALSE),
     Env("500", <<>>, "200", FALSE),
     Env("200", <<>>, "200", FALSE),
     Env("200", <<SearchHit("")>>, "200", FALSE),
     Env("200", <<SearchHit("https://a.example"), SearchHit("https://b.example")>>,
         "raise", FALSE),
     Env("200", <<SearchHit("https://a.example")>>, "404", FALSE),
     Env("200", <<SearchHit("https://a.example"), SearchHit("https://b.example")>>,
         "200", FALSE),
     Env("200", <<SearchHit("https://a.example")>>, "200", TRUE)}

WordInputs == {<<"flights", "delhi", "mumbai">>, <<"tickets">>}

\* the second date of a two-date query
SecondDates == {MkDate(2026 - YearSpan, 6, 13), MkDate(2026 + YearSpan, 6, 13)}

SecondLayouts == {"%d %B %Y", "%d/%m/%Y", "%d %b %Y"}

CallWebSearchOneDate ==
    /\ call = NoCall
    /\ \E a \in DateInputs, layout \in Layouts, words \in WordInputs, env \in NetworkInputs :
        LET query == Query(words, <<Render(a, layout)>>)
            r == web_search_flights(query, env, today)
        IN  /\ call' = [fn |-> "web_search_flights", query |-> query,
                        layouts |-> <<layout>>, denotes |-> <<Denotes(a)>>,
                        env |-> env]
            /\ out' = Result(r.text, "", <<>>)
            /\ net' = r.net
            /\ UNCHANGED <<loopVars, today, session_state>>

CallWebSearchTwoDates ==
    /\ call = NoCall
    /\ \E a \in DateInputs, b \in SecondDates, la \in SecondLayouts, lb \in SecondLayouts,
       env \in NetworkInputs :
        LET query == Query(<<"flights">>, <<Render(a, la), Render(b, lb)>>)
            r == web_search_flights(query, env, today)
        IN  /\ call' = [fn |-> "web_search_flights", query |-> query,
                        layouts |-> <<la, lb>>, denotes |-> <<Denotes(a), Denotes(b)>>,
                        env |-> env]
            /\ out' = Result(r.text, "", <<>>)
            /\ net' = r.net
            /\ UNCHANGED <<loopVars, today, session_state>>

CallWebSearchNoDate ==
    /\ call = NoCall
    /\ \E words \in WordInputs \cup {<<"cheap", "london", "flight">>}, env \in NetworkInputs :
        LET query == Query(words, <<>>)
            r == web_search_flights(query, env, today)
        IN  /\ call' = [fn |-> "web_search_flights", query |-> query,
                        layouts |-> <<>>, denotes |-> <<>>, env |-> env]
            /\ out' = Result(r.text, "", <<>>)
            /\ net' = r.net
            /\ UNCHANGED <<loopVars, today, session_state>>

NextWebSearch == CallWebSearchOneDate \/ CallWebSearchTwoDates \/ CallWebSearchNoDate

SpecWebSearch == InitCalls /\ [][NextWebSearch]_vars

IsPastDateApology(text) ==
    /\ Len(text) = 3
    /\ text[1] = "I'm sorry, but the date in your query ("
    /\ text[3] = ") appears to be in the past. Flight bookings can only be made for future dates. Please provide a future date for your travel plans."

\* the i-th date of the query under test is a calendar date before today
WrittenDateIsPast(i) ==
    /\ call.denotes[i] # NoDate
    /\ DateBefore(call.denotes[i], today)

DetectableLayouts ==
    {"%d %B %Y", "%d %B %Y etc", "%B %d %Y", "%B %d, %Y", "%d/%m/%Y",
     "%d-%m-%Y", "%Y-%m-%d", "%Y/%m/%d"}

Escape(tok) ==
    CASE tok = "\n" -> "\\n"
      [] tok = "\n\n" -> "\\n\\n"
      [] OTHER -> tok

ApostropheTokens ==
    {ItineraryClosing, "name 'duration' is not defined",
     "Adjust this day's schedule based on weather conditions and your energy level."}
    \cup Range(PastDateText)

\* repr(str) picks double quotes when the string holds an apostrophe
QuoteOf(text) == IF Range(text) \cap ApostropheTokens # {} THEN "\"" ELSE "'"

ReprText(text) ==
    <<QuoteOf(text)>> \o [i \in DOMAIN text |-> Escape(text[i])] \o <<QuoteOf(text)>>

ReprStr(s) == QuoteOf(<<s>>) \o s \o QuoteOf(<<s>>)

FlightKeys ==
    <<"airline", "flight_number", "origin", "destination", "departure_date",
      "departure_time", "arrival_time", "duration", "price", "seats_available",
      "stops">>

DayKeys == <<"title", "morning", "afternoon", "evening", "accommodation", "notes">>

ReprValue(k, v) == IF k \in {"price", "seats_available", "stops"} THEN ToString(v)
                   ELSE ReprStr(v)

RECURSIVE ReprItems(_, _, _)
ReprItems(d, keys, first) ==
    IF keys = <<>> THEN <<>>
    ELSE IF Head(keys) \notin DOMAIN d THEN ReprItems(d, Tail(keys), first)
    ELSE (IF first THEN <<>> ELSE <<", ">>)
         \o <<"'" \o Head(keys) \o "': ", ReprValue(Head(keys), d[Head(keys)])>>
         \o ReprItems(d, Tail(keys), FALSE)

ReprDict(d) ==
    <<"{">>
    \o ReprItems(d, IF "airline" \in DOMAIN d THEN FlightKeys ELSE DayKeys, TRUE)
    \o <<"}">>

RECURSIVE ReprDicts(_)
ReprDicts(data) ==
    IF data = <<>> THEN <<>>
    ELSE ReprDict(Head(data))
         \o (IF Len(data) > 1 THEN <<", ">> ELSE <<>>) \o ReprDicts(Tail(data))

StrTuple(r) ==
    <<"(">> \o ReprText(r.text) \o <<", ", "'" \o r.tag \o "'", ", ", "[">>
    \o ReprDicts(r.data) \o <<"]", ")">>

(***************************************************************************)
(* extract_flight_data_from_output and extract_itinerary_data_from_output  *)
(* of agent.py.  A value is [ok, val]: ok is FALSE where the function      *)
(* raises (float() of a price that is no number).                          *)
(***************************************************************************)
Ok(v) == [ok |-> TRUE, val |-> v]

Raised == [ok |-> FALSE, val |-> <<>>]

FlightMarkers == {"Flight " \o ToString(i) \o ":" : i \in 0..20}

DayMarkers == {"Day " \o ToString(i) \o ":" : i \in 0..20}

\* re.split(marker, output)[1:]: the pieces after each marker
RECURSIVE SplitAfter(_, _)
SplitAfter(toks, markers) ==
    LET at == {i \in DOMAIN toks : toks[i] \in markers}
        first(S) == CHOOSE i \in S : \A j \in S : i <= j
        rest == SubSeq(toks, first(at) + 1, Len(toks))
        more == {i \in DOMAIN rest : rest[i] \in markers}
    IN  IF at = {} THEN <<>>
        ELSE IF more = {} THEN <<rest>>
        ELSE <<SubSeq(rest, 1, first(more) - 1)>>
             \o SplitAfter(SubSeq(rest, first(more), Len(rest)), markers)

\* the index of the first token equal to label, 0 when there is none
IndexOf(toks, label) ==
    IF \E i \in DOMAIN toks : toks[i] = label
    THEN CHOOSE i \in DOMAIN toks : toks[i] = label /\ \A j \in 1..(i - 1) : toks[j] # label
    ELSE 0

\* the token after the first `label`, "" when there is none
ValueAfter(toks, label) ==
    IF IndexOf(toks, label) \in 1..(Len(toks) - 1)
    THEN toks[IndexOf(toks, label) + 1] ELSE ""

\* [A-Z][0-9]+ after a space: of the flight numbers made, those of two airlines
LetterDigits ==
    {"I5" \o ToString(n) : n \in 100..170} \cup {"G8" \o ToString(n) : n \in 100..160}

\* the leading [A-Z]+ of a place name, "" when it starts otherwise
UpperPrefix(place) ==
    CASE place \in {city_to_code[i][2] : i \in DOMAIN city_to_code} -> place
      [] place = "Paris" -> "P"
      [] place = "Bom" -> "B"
      [] OTHER -> ""

\* [0-9]{4}-[0-9]{2}-[0-9]{2}
IsYmd(tok) ==
    \E y \in 2020..2030, m \in 1..12, d \in 1..31 :
        tok = ToString(y) \o "-" \o Pad2(m) \o "-" \o Pad2(d)

NatOf(tok) == IF \E n \in 0..99 : ToString(n) = tok
              THEN CHOOSE n \in 0..99 : ToString(n) = tok ELSE -1

IsNumber(tok) == \E n \in 0..9999 : ToString(n) = tok

Field(k, v, present) == IF present THEN [x \in {k} |-> v] ELSE [x \in {} |-> v]

ExtractFlight(entry) ==
    LET route == IndexOf(entry, "Route: ")
        routed == /\ route \in 1..(Len(entry) - 3)
                  /\ UpperPrefix(entry[route + 1]) = entry[route + 1]
                  /\ entry[route + 1] # ""
                  /\ entry[route + 2] = " to "
                  /\ UpperPrefix(entry[route + 3]) # ""
        named == /\ Len(entry) >= 4
                 /\ entry[1] = " " /\ entry[3] = " "
                 /\ entry[4] \in LetterDigits
        price == IndexOf(entry, "Price: ")
        priced == price \in 1..(Len(entry) - 2) /\ entry[price + 1] = "$"
    IN  Field("airline", IF named THEN entry[2] ELSE "", named)
        @@ Field("flight_number", IF named THEN entry[4] ELSE "", named)
        @@ Field("origin", IF routed THEN entry[route + 1] ELSE "", routed)
        @@ Field("destination", IF routed THEN UpperPrefix(entry[route + 3]) ELSE "",
                 routed)
        @@ Field("departure_date", ValueAfter(entry, "Date: "),
                 IsYmd(ValueAfter(entry, "Date: ")))
        @@ Field("departure_time", ValueAfter(entry, "Departure: "),
                 ValueAfter(entry, "Departure: ") # "")
        @@ Field("arrival_time", ValueAfter(entry, "Arrival: "),
                 ValueAfter(entry, "Arrival: ") # "")
        @@ Field("duration", ValueAfter(entry, "Duration: "),
                 ValueAfter(entry, "Duration: ") # "")
        @@ Field("stops", NatOf(ValueAfter(entry, "Stops: ")),
                 NatOf(ValueAfter(entry, "Stops: ")) >= 0)
        @@ Field("price", IF priced THEN NatOf(entry[price + 2]) * 83 ELSE 0, priced)
        @@ Field("seats_available", NatOf(ValueAfter(entry, "Seats available: ")),
                 NatOf(ValueAfter(entry, "Seats available: ")) >= 0)

\* float(price_match.group(1)) raises ValueError
PriceRaises(entry) ==
    LET price == IndexOf(entry, "Price: ")
    IN  /\ price \in 1..(Len(entry) - 2)
        /\ entry[price + 1] = "$"
        /\ ~IsNumber(entry[price + 2])

extract_flight_data_from_output(output) ==
    LET flight_entries == SplitAfter(output, FlightMarkers)
    IN  IF "Flight information" \notin Range(output) THEN Ok(<<>>)
        ELSE IF \E i \in DOMAIN flight_entries : PriceRaises(flight_entries[i])
        THEN Raised
        ELSE Ok([i \in DOMAIN flight_entries |-> ExtractFlight(flight_entries[i])])

IsNewline(tok) == tok \in {"\n", "\n\n"}

IsBlank(tok) == tok \in {"\n", "\n\n", " ", ""}

RECURSIVE LStrip(_)
LStrip(toks) == IF toks # <<>> /\ IsBlank(Head(toks)) THEN LStrip(Tail(toks)) ELSE toks

RECURSIVE RStrip(_)
RStrip(toks) ==
    IF toks # <<>> /\ IsBlank(Last(toks)) THEN RStrip(SubSeq(toks, 1, Len(toks) - 1))
    ELSE toks

\* the ([^\n]+) that starts at the head of toks: up to the first newline
RECURSIVE Line(_)
Line(toks) ==
    IF toks = <<>> \/ IsNewline(Head(toks)) THEN <<>>
    ELSE <<Head(toks)>> \o Line(Tail(toks))

\* label([^\n]+) found and stripped, <<>> when it is not found
LineAfter(toks, label) ==
    IF IndexOf(toks, label) = 0 THEN <<>>
    ELSE RStrip(LStrip(Line(SubSeq(toks, IndexOf(toks, label) + 1, Len(toks)))))

ExtractDay(i, day) ==
    LET title == RStrip(Line(LStrip(day)))
    IN  [title |-> IF title = <<>> THEN <<"Day " \o ToString(i)>> ELSE title]
        @@ Field("morning", LineAfter(day, "Morning:"), LineAfter(day, "Morning:") # <<>>)
        @@ Field("afternoon", LineAfter(day, "Afternoon:"),
                 LineAfter(day, "Afternoon:") # <<>>)
        @@ Field("evening", LineAfter(day, "Evening:"), LineAfter(day, "Evening:") # <<>>)
        @@ Field("accommodation", LineAfter(day, "Accommodation:"),
                 LineAfter(day, "Accommodation:") # <<>>)
        @@ Field("notes", LineAfter(day, "Notes:"), LineAfter(day, "Notes:") # <<>>)

extract_itinerary_data_from_output(output) ==
    LET days == SplitAfter(output, DayMarkers)
    IN  Ok([i \in DOMAIN days |-> ExtractDay(i, days[i])])


(***************************************************************************)
(* TOOL_EXECUTOR.execute.  Arguments are the dict json.loads gives: a      *)
(* record of keyword arguments.  A result is a str (kind "str") or the     *)
(* tuple a tool returns (kind "tuple").                                    *)
(***************************************************************************)
tool_functions == {"web_search_flights", "extract_flight_info", "plan_itinerary"}

\* the parameters without a default, and all parameters, of a tool function
Required(name) ==
    CASE name = "web_search_flights" -> {"query"}
      [] name = "extract_flight_info" -> {"date_str", "origin", "destination"}
      [] OTHER -> {"destination", "duration"}

Accepted(name) ==
    IF name = "plan_itinerary" THEN Required(name) \cup {"interests"}
    ELSE Required(name)

\* tool_fn(**args), or tool_fn() for an empty dict, binds without a TypeError
BindsTo(name, args) ==
    Required(name) \subseteq DOMAIN args /\ DOMAIN args \subseteq Accepted(name)

StrResult(text) == [kind |-> "str", text |-> text]

TupleResult(r) == [kind |-> "tuple", text |-> r.text, tag |-> r.tag, data |-> r.data]

\* what the tools draw at random or get from the network during one step
World(frng, irng, env) == [frng |-> frng, irng |-> irng, env |-> env]

Worlds ==
    {World([n |-> 5, hi |-> {}], [base |-> 0, stride |-> 0],
           Env("200", <<SearchHit("https://a.example")>>, "200", FALSE)),
     World([n |-> 7, hi |-> {0, 3}], [base |-> 1, stride |-> 1],
           Env("raise", <<>>, "200", FALSE))}

execute(name, args, w, now) ==
    IF name \notin tool_functions
    THEN StrResult(<<"Error: Tool '", name, "' not found">>)
    ELSE IF ~BindsTo(name, args)
    THEN StrResult(<<"Error executing ", name, ": ", "TypeError">>)
    ELSE IF name = "web_search_flights"
    THEN StrResult(web_search_flights(args.query, w.env, now).text)
    ELSE IF name = "extract_flight_info"
    THEN TupleResult(extract_flight_info(args.date_str, args.origin,
                                         args.destination, now, w.frng))
    ELSE TupleResult(plan_itinerary(args.destination, args.duration,
                                    IF "interests" \in DOMAIN args
                                    THEN args.interests ELSE <<>>,
                                    w.irng))

\* str(tool_result)
Str(tool_result) ==
    IF tool_result.kind = "str" THEN tool_result.text ELSE StrTuple(tool_result)

(***************************************************************************)
(* Messages, model replies and tool invocation requests.                   *)
(***************************************************************************)
END == "END"

Msg(role, content) == [role |-> role, content |-> content]

ToolMsg(id, name, content) ==
    [tool_call_id |-> id, role |-> "tool", name |-> name, content |-> content]

system_message ==
    <<"You are a helpful travel assistant for Indian travelers with access to real-time information.">>

\* the text of the k-th query of a session: every query has its own
UserQueryNo(k) ==
    IF k = 1 THEN <<"flights from Delhi to Mumbai on 4 May 2027">>
    ELSE <<"plan a trip to Goa for " \o ToString(k) \o " days">>

UserQueries == {UserQueryNo(k) : k \in 1..MaxQueries}

\* tool_call.function.arguments: text json.loads accepts, or text it rejects
JsonObject(value) == [json |-> "object", value |-> value]

InvalidJson == [json |-> "invalid"]

Request(name, arguments) == [name |-> name, arguments |-> arguments]

FlightArgs(date_str) ==
    [date_str |-> date_str, origin |-> "Delhi", destination |-> "Mumbai"]

\* the requests the model endpoint may put into a reply
LoopRequests ==
    {Request("book_hotel", JsonObject([city |-> "Goa"])),
     Request("book_hotel", InvalidJson),
     Request("web_search_flights",
             JsonObject([query |-> Query(<<"flights", "delhi", "mumbai">>, <<>>)])),
     Request("extract_flight_info",
             JsonObject(FlightArgs(Render(MkDate(2027, 5, 4), "%d %B %Y")))),
     Request("extract_flight_info",
             JsonObject(FlightArgs(Render(MkDate(2025, 5, 4), "%d %B %Y")))),
     Request("extract_flight_info", JsonObject(<<>>)),
     Request("extract_flight_info", JsonObject(FlightArgs(MkStr("crafted", 0, 0, 0)))),
     Request("plan_itinerary", JsonObject([destination |-> "Goa", duration |-> 2])),
     Request("plan_itinerary", InvalidJson)}

\* the second request of a reply with two
SecondRequests ==
    {Request("book_hotel", JsonObject([city |-> "Goa"])),
     Request("extract_flight_info",
             JsonObject(FlightArgs(Render(MkDate(2027, 5, 4), "%d %B %Y")))),
     Request("extract_flight_info",
             JsonObject(FlightArgs(Render(MkDate(2025, 5, 4), "%d %B %Y")))),
     Request("plan_itinerary", InvalidJson)}

Batches ==
    {<<>>} \cup {<<a>> : a \in LoopRequests}
    \cup {<<a, b>> : a \in LoopRequests, b \in SecondRequests}

\* the requests of the reply of model call `round`, with their identifiers
WithIds(batch, round) ==
    [k \in DOMAIN batch |->
        [id |-> "call_" \o ToString(round) \o "_" \o ToString(k),
         name |-> batch[k].name, arguments |-> batch[k].arguments]]

\* message.content of the reply of model call `round`: None (<<>>) with
\* tool requests, None or a text without
ReplyContents(round, batch) ==
    IF batch # <<>> THEN {<<>>} ELSE {<<>>, <<"reply " \o ToString(round)>>}

Ids(tcs) == [k \in DOMAIN tcs |-> [id |-> tcs[k].id, name |-> tcs[k].name]]

\* a variant of router that ends the loop after the first round-trip
CappedRouter(state_next) ==
    IF rounds >= 1 /\ state_next = "execute_tools" THEN END ELSE state_next

router(state_next) == state_next


(***************************************************************************)
(* process_query after agent.invoke: the text and structured data it       *)
(* returns from the final messages.                                        *)
(***************************************************************************)
Returned(text, data_type, data) ==
    [kind |-> "value", text |-> text, data_type |-> data_type, data |-> data]

Exception(type) == [kind |-> "exception", type |-> type]

WithRole(msgs, role) == SelectSeq(msgs, LAMBDA m : m.role = role)

NoData == [flight_data |-> None, itinerary_data |-> None, data_type |-> None]

\* a variant that assigns the data type before the extraction is tried
ExtractionStepTypeFirst(acc, output) ==
    IF output.name = "extract_flight_info"
    THEN LET r == extract_flight_data_from_output(output.content)
         IN  IF r.ok
             THEN [acc EXCEPT !.flight_data = Some(r.val), !.data_type = Some("flight")]
             ELSE [acc EXCEPT !.data_type = Some("flight")]
    ELSE IF output.name = "plan_itinerary"
    THEN LET r == extract_itinerary_data_from_output(output.content)
         IN  IF r.ok
             THEN [acc EXCEPT !.itinerary_data = Some(r.val),
                              !.data_type = Some("itinerary")]
             ELSE [acc EXCEPT !.data_type = Some("itinerary")]
    ELSE acc

\* one pass of the loop of lines 293-308: the try bodies assign the data and
\* then the data type, and the bare except leaves both as they were
ExtractionStep(acc, output) ==
    IF output.name = "extract_flight_info"
    THEN LET r == extract_flight_data_from_output(output.content)
         IN  IF r.ok
             THEN [acc EXCEPT !.flight_data = Some(r.val), !.data_type = Some("flight")]
             ELSE acc
    ELSE IF output.name = "plan_itinerary"
    THEN LET r == extract_itinerary_data_from_output(output.content)
         IN  IF r.ok
             THEN [acc EXCEPT !.itinerary_data = Some(r.val),
                              !.data_type = Some("itinerary")]
             ELSE acc
    ELSE acc

RECURSIVE ScanToolOutputs(_, _)
ScanToolOutputs(outputs, acc) ==
    IF outputs = <<>> THEN acc
    ELSE ScanToolOutputs(Tail(outputs), ExtractionStep(acc, Head(outputs)))

\* lines 284-323, on result["messages"]
process_query_result(msgs) ==
    LET assistant_messages == WithRole(msgs, "assistant")
        acc == ScanToolOutputs(WithRole(msgs, "tool"), NoData)
    IN  IF assistant_messages # <<>>
        THEN IF acc.data_type = Some("flight")
             THEN Returned(Last(assistant_messages).content, acc.data_type,
                           acc.flight_data)
             ELSE IF acc.data_type = Some("itinerary")
             THEN Returned(Last(assistant_messages).content, acc.data_type,
                           acc.itinerary_data)
             ELSE Returned(Last(assistant_messages).content, None, None)
        ELSE Returned(<<"No response generated">>, None, None)

(***************************************************************************)
(* The conversation loop: process_query builds a fresh AgentState and      *)
(* invokes the graph, whose nodes are call_model and execute_tools.        *)
(***************************************************************************)
\* the messages left by the earlier query, kept in front of the new ones
CarriedMessages(query) ==
    messages \o <<Msg("system", system_message), Msg("user", query)>>

\* state["messages"] as process_query builds it
InitialMessages(query) == <<Msg("system", system_message), Msg("user", query)>>

\* process_query(query) up to agent.invoke(state)
StartQuery(query) ==
    /\ pc \in {"idle", "returned", "raised"}
    /\ queries < MaxQueries
    /\ messages' = InitialMessages(query)
    /\ tool_calls' = <<>>
    /\ tool_outputs' = <<>>
    /\ next' = "call_model"
    /\ node' = "call_model"
    /\ pc' = "invoke"
    /\ ret' = NoRet
    /\ executed' = <<>>
    /\ rounds' = 0
    /\ used' = 0
    /\ queries' = queries + 1
    /\ reply' = NoReply
    /\ UNCHANGED <<today, callVars>>

ProcessQueryStart ==
    /\ \E query \in {q \in UserQueries : q = UserQueryNo(queries + 1)} : StartQuery(query)
    /\ UNCHANGED session_state

\* a variant of call_model that does not record the reply
DropMessage(msgs, message) == msgs

\* state["messages"].append(assistant_message)
AppendMessage(msgs, message) == Append(msgs, message)

CallModel ==
    /\ pc = "invoke"
    /\ node = "call_model"
    /\ rounds < MaxRounds
    /\ \E batch \in Batches : \E content \in ReplyContents(rounds + 1, batch) :
        /\ used + Len(batch) <= MaxUsed
        /\ reply' = [content |-> content, tool_calls |-> WithIds(batch, rounds + 1)]
        /\ used' = used + Len(batch)
    /\ messages' = AppendMessage(messages, Msg("assistant", reply'.content))
    /\ IF reply'.tool_calls # <<>>
       THEN /\ tool_calls' = reply'.tool_calls
            /\ next' = "execute_tools"
       ELSE /\ tool_calls' = tool_calls
            /\ next' = END
    /\ node' = router(next')
    /\ rounds' = rounds + 1
    /\ executed' = <<>>
    /\ UNCHANGED <<tool_outputs, pc, ret, queries, today, callVars, session_state>>

\* client.chat.completions.create raises: nothing catches it up to the
\* caller of process_query
CallModelRaises ==
    /\ pc = "invoke"
    /\ node = "call_model"
    /\ rounds < MaxRounds
    /\ pc' = "raised"
    /\ ret' = Exception("APIConnectionError")
    /\ UNCHANGED <<messages, tool_calls, tool_outputs, next, executed, rounds, used,
                   queries, reply, node, today, callVars, session_state>>

\* the first request whose arguments json.loads rejects, 0 when there is none
FirstInvalid(tcs) ==
    IF \E k \in DOMAIN tcs : tcs[k].arguments.json = "invalid"
    THEN CHOOSE k \in DOMAIN tcs :
            /\ tcs[k].arguments.json = "invalid"
            /\ \A j \in 1..(k - 1) : tcs[j].arguments.json # "invalid"
    ELSE 0

\* a variant that collects the results last request first
ToolResultsReversed(tcs, w, now) ==
    [k \in DOMAIN tcs |->
        ToolMsg(tcs[Len(tcs) + 1 - k].id, tcs[Len(tcs) + 1 - k].name,
                Str(execute(tcs[Len(tcs) + 1 - k].name,
                            tcs[Len(tcs) + 1 - k].arguments.value, w, now)))]

\* the list `results` after the for loop of execute_tools has run through
ToolResults(tcs, w, now) ==
    [k \in DOMAIN tcs |->
        ToolMsg(tcs[k].id, tcs[k].name,
                Str(execute(tcs[k].name, tcs[k].arguments.value, w, now)))]

\* a variant that keeps only the new results
ReplaceMessages(msgs, results) == results

\* state["messages"].extend(results)
ExtendMessages(msgs, results) == msgs \o results

\* a variant that keeps the outputs of the earlier batches
AccumulateToolOutputs(outputs, results) == outputs \o results

\* state["tool_outputs"] = results
StoreToolOutputs(outputs, results) == results

ExecuteTools ==
    /\ pc = "invoke"
    /\ node = "execute_tools"
    /\ \E w \in Worlds :
        IF FirstInvalid(tool_calls) # 0
        THEN \* json.loads raises inside the for loop: `results` is dropped
             /\ executed' = SubSeq(Ids(tool_calls), 1, FirstInvalid(tool_calls) - 1)
             /\ pc' = "raised"
             /\ ret' = Exception("JSONDecodeError")
             /\ UNCHANGED <<messages, tool_outputs, next, node>>
        ELSE /\ executed' = Ids(tool_calls)
             /\ messages' = ExtendMessages(messages, ToolResults(tool_calls, w, today))
             /\ tool_outputs' = StoreToolOutputs(tool_outputs,
                                                ToolResults(tool_calls, w, today))
             /\ next' = "call_model"
             /\ node' = router(next')
             /\ UNCHANGED <<pc, ret>>
    /\ UNCHANGED <<tool_calls, rounds, used, queries, reply, today, callVars, session_state>>

\* process_query from the return of agent.invoke to its own return
ReturnResult ==
    /\ pc = "invoke"
    /\ node = END
    /\ ret' = process_query_result(messages)
    /\ pc' = "returned"
    /\ UNCHANGED <<messages, tool_calls, tool_outputs, next, executed, rounds, used,
                   queries, reply, node, today, callVars>>

ProcessQueryReturn == ReturnResult /\ UNCHANGED session_state

(***************************************************************************)
(* plan_itinerary called on its own, once per behaviour.                   *)
(***************************************************************************)
MaxDuration == 4

CallPlanItinerary ==
    /\ call = NoCall
    /\ \E destination \in DestinationInputs, duration \in 0..MaxDuration,
          interests \in InterestInputs, rng \in ItineraryRngs :
        /\ call' = [fn |-> "plan_itinerary", destination |-> destination,
                    duration |-> duration, interests |-> interests, rng |-> rng]
        /\ out' = plan_itinerary(destination, duration, interests, rng)
        /\ net' = <<>>
        /\ UNCHANGED <<loopVars, today, session_state>>

NextItinerary == CallPlanItinerary

SpecItinerary == InitCalls /\ [][NextItinerary]_vars

(***************************************************************************)
(* utils.parse_date called on its own, once per behaviour.                 *)
(***************************************************************************)
CallParseDate ==
    /\ call = NoCall
    /\ \E a \in DateInputs, layout \in Layouts :
        /\ call' = [fn |-> "parse_date", date_str |-> Render(a, layout),
                    layout |-> layout, denotes |-> Denotes(a)]
        /\ out' = [tag |-> "date", date |-> parse_date(Render(a, layout))]
        /\ net' = <<>>
        /\ UNCHANGED <<loopVars, today, session_state>>

NextParseDate == CallParseDate

SpecParseDate == InitCalls /\ [][NextParseDate]_vars

(***************************************************************************)
(* utils.extract_duration_from_text.  A text is a sequence of tokens: runs *)
(* of digits, words, " " and "-".                                          *)
(***************************************************************************)
DurationNumbers == {"1", "2", "3", "5", "10", "12"}

\* str.lower() / re.IGNORECASE on the words of the inputs
LowerWord(tok) ==
    CASE tok = "Days" -> "days"
      [] tok = "Weekend" -> "weekend"
      [] OTHER -> tok

\* days? and night at the start of a word
StartsDay(tok) == LowerWord(tok) \in {"day", "days"}

StartsNight(tok) == LowerWord(tok) \in {"night", "nights"}

StartsWeek(tok) == LowerWord(tok) \in {"week", "weeks", "weekend"}

\* \s*: the first position from i on that holds no space
RECURSIVE SkipSpaces(_, _)
SkipSpaces(toks, i) ==
    IF i <= Len(toks) /\ toks[i] = " " THEN SkipSpaces(toks, i + 1) ELSE i

TokAt(toks, i) == IF i \in DOMAIN toks THEN toks[i] ELSE ""

\* (\d+)\s*unit, or (\d+)\s*\-?\s*unit with hyphen, matches from token i
DurationMatchAt(toks, i, hyphen, unit) ==
    LET j == SkipSpaces(toks, i + 1)
        k == SkipSpaces(toks, j + 1)
    IN  /\ toks[i] \in DurationNumbers
        /\ \/ (unit = "day" /\ StartsDay(TokAt(toks, j)))
           \/ (unit = "night" /\ StartsNight(TokAt(toks, j)))
           \/ (hyphen /\ TokAt(toks, j) = "-" /\ unit = "day" /\ StartsDay(TokAt(toks, k)))
           \/ (hyphen /\ TokAt(toks, j) = "-" /\ unit = "night"
                 /\ StartsNight(TokAt(toks, k)))

\* re.search(pattern, text, re.IGNORECASE): the number of the leftmost match, -1 without
DurationSearch(toks, hyphen, unit) ==
    LET at == {i \in DOMAIN toks : DurationMatchAt(toks, i, hyphen, unit)}
    IN  IF at = {} THEN -1
        ELSE NatOf(toks[CHOOSE i \in at : \A j \in at : i <= j])

duration_patterns ==
    <<[hyphen |-> FALSE, unit |-> "day"], [hyphen |-> TRUE, unit |-> "day"],
      [hyphen |-> FALSE, unit |-> "night"], [hyphen |-> TRUE, unit |-> "night"]>>

\* 'week' in text.lower()
HasWeek(toks) == \E i \in DOMAIN toks : StartsWeek(toks[i])

\* '<word> week' in text.lower(), for the words "one", "two" and the digits "1", "2"
HasBeforeWeek(toks, word) ==
    \E i \in 1..(Len(toks) - 2) :
        /\ \/ word \in {"one", "two"} /\ LowerWord(toks[i]) = word
           \/ word = "1" /\ toks[i] \in {"1"}
           \/ word = "2" /\ toks[i] \in {"2", "12"}
        /\ toks[i + 1] = " "
        /\ StartsWeek(toks[i + 2])

extract_duration_from_text(text) ==
    LET found == SelectSeq(duration_patterns,
                           LAMBDA p : DurationSearch(text, p.hyphen, p.unit) # -1)
    IN  IF found # <<>>
        THEN Some(DurationSearch(text, found[1].hyphen, found[1].unit))
        ELSE IF HasWeek(text)
        THEN IF HasBeforeWeek(text, "one") \/ HasBeforeWeek(text, "1") THEN Some(7)
             ELSE IF HasBeforeWeek(text, "two") \/ HasBeforeWeek(text, "2") THEN Some(14)
             ELSE Some(7)
        ELSE None

DurationPhrases ==
    {<<"5", " ", "days">>, <<"3", " ", "nights">>, <<"10", "-", "day">>,
     <<"2", " ", "-", " ", "night">>, <<"1", "Days">>, <<"one", " ", "week">>,
     <<"a", " ", "week">>, <<"two", " ", "weeks">>, <<"2", " ", "weeks">>,
     <<"1", " ", "week">>, <<"12", " ", "week">>, <<"Weekend">>,
     <<"weekend">>, <<"trip">>, <<"12">>}

DurationTexts == {a \o <<" ">> \o b : a \in DurationPhrases, b \in DurationPhrases}

CallExtractDuration ==
    /\ call = NoCall
    /\ \E text \in DurationTexts :
        /\ call' = [fn |-> "extract_duration_from_text", text |-> text]
        /\ out' = [tag |-> "duration", value |-> extract_duration_from_text(text)]
        /\ net' = <<>>
        /\ UNCHANGED <<loopVars, today, session_state>>

NextDuration == CallExtractDuration

SpecDuration == InitCalls /\ [][NextDuration]_vars

Init == InitCalls /\ today = MkDate(2026, 11, 2)

Next ==
    \/ ProcessQueryStart
    \/ CallModel
    \/ CallModelRaises
    \/ ExecuteTools
    \/ ProcessQueryReturn

Spec == Init /\ [][Next]_vars

(***************************************************************************)
(* The travel-assistant page (app.py).  A prompt runs the chat-input       *)
(* handler: it records the prompt, calls process_query, which runs the     *)
(* loop above, and then stores the data and records the response.  An      *)
(* exception out of process_query ends the script run where it is raised;  *)
(* st.session_state keeps what the handler had written.                    *)
(***************************************************************************)
\* `data` in `data_type == ... and data`: a list that is not empty
Truthy(data) == data # None /\ data.val # <<>>

\* lines 113-115 and 221-223, on the session's two data entries
StoreData(session, data_type, data) ==
    IF data_type = Some("flight") /\ Truthy(data)
    THEN [session EXCEPT !.flight_data = data, !.itinerary_data = None]
    ELSE IF data_type = Some("itinerary") /\ Truthy(data)
    THEN [session EXCEPT !.itinerary_data = data, !.flight_data = None]
    ELSE session

\* st.session_state.messages.append({"role": role, "content": content})
AddToHistory(session, role, content) ==
    [session EXCEPT !.messages = Append(@, [role |-> role, content |-> content])]

\* lines 98-109: the prompt is recorded and process_query is entered
ChatInput ==
    \E prompt \in {q \in UserQueries : q = UserQueryNo(queries + 1)} :
        /\ session_state' = AddToHistory(session_state, "user", prompt)
        /\ StartQuery(prompt)

\* lines 109-249: process_query returns, the data is stored and the
\* response is recorded
ShowResponse ==
    /\ ReturnResult
    /\ session_state' =
           AddToHistory(StoreData(session_state, ret'.data_type, ret'.data),
                        "assistant", ret'.text)

NextApp ==
    \/ ChatInput
    \/ CallModel
    \/ CallModelRaises
    \/ ExecuteTools
    \/ ShowResponse

SpecApp == Init /\ [][NextApp]_vars


(***************************************************************************)
(* Properties of the conversation loop.                                    *)
(***************************************************************************)

\* C1: while one query is processed, every step of call_model and
\* execute_tools leaves the messages already present unchanged and in order
\* and only adds messages at the end: the old sequence is a prefix of the new.
C1_MessagesAppendOnly == [][pc = "invoke" => IsPrefix(messages, messages')]_vars

\* call_model, execute_tools and call_model again have each added messages
C1_Witness ==
    /\ pc = "invoke"
    /\ rounds = 2
    /\ Len(messages) >= 5
    /\ messages[3].role = "assistant"
    /\ messages[4].role = "tool"
    /\ messages[Len(messages)].role = "assistant"

\* C2: after a reply with tool requests the next step is execute_tools, which
\* runs every requested tool, appends one tool message per request and hands
\* control back to call_model; after a reply without tool requests the loop
\* ends with no further model call and no tool execution.
C2_ReplyRouting ==
    [][/\ (pc = "invoke" /\ node = "call_model" /\ pc' = "invoke")
            => node' = (IF reply'.tool_calls # <<>> THEN "execute_tools" ELSE END)
       /\ (pc = "invoke" /\ node = "execute_tools")
            => /\ executed' = Ids(tool_calls)
               /\ Len(messages') = Len(messages) + Len(tool_calls)
               /\ pc' = "invoke"
               /\ node' = "call_model"
       /\ (pc = "invoke" /\ node = END)
            => /\ pc' = "returned"
               /\ rounds' = rounds
               /\ executed' = executed]_vars

IdsOf(tool_messages) ==
    [k \in DOMAIN tool_messages |->
        [id |-> tool_messages[k].tool_call_id, name |-> tool_messages[k].name]]

\* C3: when the loop completes, process_query returns (text, data_type, data)
\* where text is the content of the last assistant message, data_type is
\* "flight", "itinerary" or None, and data is a record list exactly when
\* data_type is not None: the list extracted from a tool message of the tool
\* the data type names, so never a flight list and an itinerary list at once.
C3_ReturnShape ==
    pc = "returned" =>
        /\ ret.kind = "value"
        /\ ret.text = Last(WithRole(messages, "assistant")).content
        /\ ret.data_type \in {None, Some("flight"), Some("itinerary")}
        /\ (ret.data_type = None) <=> (ret.data = None)
        /\ ret.data_type = Some("flight") =>
            \E i \in DOMAIN messages :
                /\ messages[i].role = "tool"
                /\ messages[i].name = "extract_flight_info"
                /\ ret.data = Some(extract_flight_data_from_output(messages[i].content).val)
        /\ ret.data_type = Some("itinerary") =>
            \E i \in DOMAIN messages :
                /\ messages[i].role = "tool"
                /\ messages[i].name = "plan_itinerary"
                /\ ret.data = Some(extract_itinerary_data_from_output(messages[i].content).val)

\* a query answered with a text and with flight records
C3_Witness ==
    /\ pc = "returned"
    /\ ret.text = <<"reply 2">>
    /\ ret.data_type = Some("flight")
    /\ Len(ret.data.val) >= 5

\* C4: the loop has no cap on its round-trips and ends exactly when a reply
\* of the model carries no tool request: while a query is processed, the
\* graph is at its end if and only if the latest reply has no tool requests.
C4_EndsExactlyOnToolFreeReply ==
    pc \in {"invoke", "returned"} =>
        ((node = END) <=> (rounds > 0 /\ reply.tool_calls = <<>>))

\* every model call the bound allows has been made, each reply asked for a
\* tool, and the loop is still going
C4_Witness ==
    /\ pc = "invoke"
    /\ rounds = MaxRounds
    /\ used >= MaxRounds
    /\ node = "execute_tools"

\* C5: within one execute_tools step the tools run one at a time in the
\* order of the requests of the reply, and the tool messages are appended in
\* that order: the k-th carries the identifier and name of the k-th request.
C5_RequestOrder ==
    /\ IsPrefix(executed, Ids(tool_calls))
    /\ (pc = "invoke" /\ node = "call_model" /\ rounds > 0) =>
        /\ executed = Ids(tool_calls)
        /\ IdsOf(tool_outputs) = Ids(tool_calls)
        /\ SubSeq(messages, Len(messages) - Len(tool_outputs) + 1, Len(messages))
             = tool_outputs

\* a step that ran two requests for different tools
C5_Witness ==
    /\ pc = "invoke"
    /\ node = "call_model"
    /\ Len(tool_outputs) = 2
    /\ tool_outputs[1].name # tool_outputs[2].name
    /\ tool_outputs[1].tool_call_id # tool_outputs[2].tool_call_id

\* C6: a request for a tool that is not registered does not abort the loop:
\* the step appends the tool message "Error: Tool '<name>' not found" for it
\* and the model is called next.
C6_UnknownToolContinues ==
    [][(pc = "invoke" /\ node = "execute_tools") =>
        \A k \in DOMAIN tool_calls :
            tool_calls[k].name \notin tool_functions =>
                /\ pc' = "invoke"
                /\ node' = "call_model"
                /\ \E i \in (Len(messages) + 1)..Len(messages') :
                    messages'[i] =
                        ToolMsg(tool_calls[k].id, tool_calls[k].name,
                                <<"Error: Tool '", tool_calls[k].name, "' not found">>)]_vars

\* C7: an exception raised while a registered tool runs, a call with missing
\* arguments included, becomes the tool message "Error executing <name>: ..."
\* of that request, and the model is called next; the loop does not abort.
C7_ToolExceptionContinues ==
    [][(pc = "invoke" /\ node = "execute_tools") =>
        \A k \in DOMAIN tool_calls :
            (/\ tool_calls[k].name \in tool_functions
             /\ tool_calls[k].arguments.json = "object"
             /\ ~BindsTo(tool_calls[k].name, tool_calls[k].arguments.value)) =>
                /\ pc' = "invoke"
                /\ node' = "call_model"
                /\ \E i \in (Len(messages) + 1)..Len(messages') :
                    messages'[i] =
                        ToolMsg(tool_calls[k].id, tool_calls[k].name,
                                <<"Error executing ", tool_calls[k].name, ": ",
                                  "TypeError">>)]_vars

\* C8: no failure is fatal: process_query never lets an exception through to
\* its caller.
C8_NeverRaises == pc # "raised"


(***************************************************************************)
(* Properties of extract_flight_info called on its own.                    *)
(***************************************************************************)
SevenDaysAfter(a) == NextDay(NextDay(NextDay(NextDay(NextDay(NextDay(NextDay(a)))))))

\* C11: when the date string cannot be parsed by any layout or by the
\* fallback, extract_flight_info does not fail and does not return the tag
\* "error": it returns tag "flight" with flight records, every one dated
\* seven days after the current date.
C11_UnparsedDateGivesNextWeek ==
    (call.fn = "extract_flight_info" /\ ParseFlightDate(call.date_str) = NoDate) =>
        /\ out.tag = "flight"
        /\ out.data # <<>>
        /\ \A i \in DOMAIN out.data :
            out.data[i].departure_date = FormatYmd(SevenDaysAfter(today))

\* a date written month first with a comma is parsed by nothing
C11_Witness ==
    /\ call.fn = "extract_flight_info"
    /\ call.layout = "%B %d, %Y"
    /\ call.denotes # NoDate
    /\ ParseFlightDate(call.date_str) = NoDate
    /\ out.tag = "flight"
    /\ Len(out.data) = 5

\* C12: every call of extract_flight_info that is not rejected returns
\* between 5 and 10 flight records, sorted non-decreasing by price.
C12_FiveToTenSortedByPrice ==
    (call.fn = "extract_flight_info" /\ out.tag = "flight") =>
        /\ Len(out.data) \in 5..10
        /\ \A i \in 1..(Len(out.data) - 1) : out.data[i].price <= out.data[i + 1].price
        /\ \A i \in DOMAIN out.data : out.data[i].price >= 0

\* ten records whose order by price is not the order they were generated in
C12_Witness ==
    /\ call.fn = "extract_flight_info"
    /\ out.tag = "flight"
    /\ Len(out.data) = 10
    /\ out.data[1].flight_number # "AI100"
    /\ out.data[1].price < out.data[10].price


(* The city lookup, seen through the origin of the records that           *)
(* extract_flight_info returns (tools.py:164, 168).                       *)
ExactEntries(name) == {i \in DOMAIN city_to_code : city_to_code[i][1] = name}

PartialEntries(name) ==
    {i \in DOMAIN city_to_code :
        Contains(name, city_to_code[i][1]) \/ Contains(city_to_code[i][1], name)}

\* the three-step lookup on the lower-cased trimmed input
LooksUp(city, code) ==
    LET name == LowerStrip(city)
    IN  IF ExactEntries(name) # {}
        THEN \E i \in ExactEntries(name) : code = city_to_code[i][2]
        ELSE IF PartialEntries(name) # {}
        THEN \E i \in PartialEntries(name) : code = city_to_code[i][2]
        ELSE code = city

\* C13 as stated: for any input the result is the code of the table entry
\* equal to the lower-cased trimmed input, else the code of an entry whose
\* name contains the input or is contained in it, else the input unchanged.
C13_LookupForAnyInput ==
    (call.fn = "extract_flight_info" /\ out.tag = "flight") =>
        \A i \in DOMAIN out.data : LooksUp(call.origin, out.data[i].origin)

\* C13: an input of three upper-case characters is returned unchanged; every
\* other input maps to the code of the table entry equal to the lower-cased
\* trimmed input, else to the code of an entry whose name contains the input
\* or is contained in it, else to itself.  "Delhi" maps to "DEL" and "Mumbai"
\* to "BOM".
C13_LookupUnlessAirportCode ==
    (call.fn = "extract_flight_info" /\ out.tag = "flight") =>
        \A i \in DOMAIN out.data :
            /\ IsAirportCode(call.origin) => out.data[i].origin = call.origin
            /\ ~IsAirportCode(call.origin) => LooksUp(call.origin, out.data[i].origin)
            /\ call.origin = "Delhi" => out.data[i].origin = "DEL"
            /\ call.destination = "Mumbai" => out.data[i].destination = "BOM"

C13_Witness ==
    /\ call.fn = "extract_flight_info"
    /\ call.origin = "New Delhi Airport"
    /\ call.destination = "Paris"
    /\ out.tag = "flight"
    /\ out.data[1].origin = "DEL"
    /\ out.data[1].destination = "Paris"


(* Properties of plan_itinerary called on its own. *)
InKnowledgeBase(destination) ==
    \E i \in DOMAIN destinations :
        DestinationMatches(destinations[i].name, StripTitle(destination))

\* the morning of the arrival template, for some accommodation of the knowledge base
MentionsCheckIn(morning, destination) ==
    \E i \in DOMAIN destinations : \E acc \in Range(destinations[i].accommodation) :
        morning = "Arrival in " \o StripTitle(destination) \o ". Check-in to your "
                    \o Lower(acc) \o "."

MentionsSouvenirs(morning) == morning = "Last-minute shopping for souvenirs and gifts."

\* C14: for a destination of the knowledge base and a duration D >= 1,
\* plan_itinerary returns tag "itinerary" with exactly D day records; when
\* D > 1 the morning of day 1 mentions "Check-in" (arrival template) and the
\* morning of day D mentions "souvenirs" (departure template).
C14_OneRecordPerDay ==
    (/\ call.fn = "plan_itinerary"
     /\ InKnowledgeBase(call.destination)
     /\ call.duration >= 1) =>
        /\ out.tag = "itinerary"
        /\ Len(out.data) = call.duration
        /\ call.duration > 1 =>
            /\ MentionsCheckIn(out.data[1].morning, call.destination)
            /\ ~MentionsSouvenirs(out.data[1].morning)
            /\ MentionsSouvenirs(out.data[call.duration].morning)

C14_Witness ==
    /\ call.fn = "plan_itinerary"
    /\ call.destination = "kerala"
    /\ call.duration = 3
    /\ out.tag = "itinerary"
    /\ Len(out.data) = 3
    /\ out.data[1].title = "Arrival in Kerala"
    /\ MentionsSouvenirs(out.data[3].morning)


\* C15: for a destination that matches no entry of the knowledge base,
\* plan_itinerary uses the generic profile and still returns tag "itinerary"
\* with one day record per requested day, never the tag "error" or an empty
\* list.
C15_UnknownDestinationGetsGenericPlan ==
    (/\ call.fn = "plan_itinerary"
     /\ ~InKnowledgeBase(call.destination)
     /\ call.duration >= 1) =>
        /\ out.tag = "itinerary"
        /\ out.tag # "error"
        /\ out.data # <<>>
        /\ Len(out.data) = call.duration

\* the highlight h, respectively the activity a, appears in the morning or
\* afternoon sentence of a day as lines 556-568 build them
UsesHighlight(day, h, info) ==
    \/ day.morning = "Visit " \o h
    \/ \E a \in Range(info.activities) :
        \/ day.morning = "Visit " \o h \o " - " \o a
        \/ day.afternoon = "Experience " \o a \o " at " \o h
        \/ day.afternoon = "Explore " \o h \o ". Try " \o a

UsesActivity(day, a, info) ==
    \E h \in Range(info.highlights) :
        \/ day.morning = "Visit " \o h \o " - " \o a
        \/ day.afternoon = "Experience " \o a \o " at " \o h
        \/ day.afternoon = "Explore " \o h \o ". Try " \o a

\* C16: within one itinerary an interior day never uses a highlight, or an
\* activity, that an earlier day already used, unless every highlight
\* (respectively every activity) of the profile has been used before that day.
C16_NoReuseBeforeExhaustion ==
    (call.fn = "plan_itinerary" /\ out.tag = "itinerary") =>
        LET info == get_destination_info(StripTitle(call.destination))
            data == out.data
        IN  \A k \in 2..(Len(data) - 1) :
                /\ \A h \in Range(info.highlights) :
                    (/\ UsesHighlight(data[k], h, info)
                     /\ \E j \in 1..(k - 1) : UsesHighlight(data[j], h, info))
                    => \A g \in Range(info.highlights) :
                          \E j \in 1..(k - 1) : UsesHighlight(data[j], g, info)
                /\ \A a \in Range(info.activities) :
                    (/\ UsesActivity(data[k], a, info)
                     /\ \E j \in 1..(k - 1) : UsesActivity(data[j], a, info))
                    => \A b \in Range(info.activities) :
                          \E j \in 1..(k - 1) : UsesActivity(data[j], b, info)

\* C20: for duration 1 the itinerary has exactly one day record, built from
\* the arrival template (title "Arrival in <destination>", morning mentioning
\* "Check-in", an accommodation entry); the departure template is not used.
C20_SingleDayIsArrival ==
    (/\ call.fn = "plan_itinerary"
     /\ InKnowledgeBase(call.destination)
     /\ call.duration = 1) =>
        /\ out.tag = "itinerary"
        /\ Len(out.data) = 1
        /\ out.data[1].title = "Arrival in " \o StripTitle(call.destination)
        /\ MentionsCheckIn(out.data[1].morning, call.destination)
        /\ ~MentionsSouvenirs(out.data[1].morning)
        /\ "accommodation" \in DOMAIN out.data[1]

C20_Witness ==
    /\ call.fn = "plan_itinerary"
    /\ call.destination = "Goa"
    /\ call.duration = 1
    /\ Len(out.data) = 1
    /\ out.data[1].title = "Arrival in Goa"
    /\ out.data[1].notes = "Take it easy on your first day to acclimatize to the new surroundings."


(* The flight report read back by extract_flight_data_from_output. *)
RoundTripKeys ==
    {"airline", "flight_number", "origin", "destination", "departure_date",
     "departure_time", "arrival_time", "duration", "stops", "seats_available"}

\* C17: for every flight record list produced by extract_flight_info, passing
\* the text report to extract_flight_data_from_output yields the same number
\* of records, and each extracted record has the same airline, flight number,
\* origin, destination, date, departure time, arrival time, duration, stops
\* and seats as the generated record at the same position.
C17_FlightRoundTrip ==
    (call.fn = "extract_flight_info" /\ out.tag = "flight") =>
        LET back == extract_flight_data_from_output(out.text)
        IN  /\ back.ok
            /\ Len(back.val) = Len(out.data)
            /\ \A i \in DOMAIN out.data : \A k \in RoundTripKeys :
                    /\ k \in DOMAIN back.val[i]
                    /\ back.val[i][k] = out.data[i][k]


(* Properties of utils.parse_date called on its own. *)
NineLayouts == Range(parse_date_formats)

\* C18 as stated: the rendering of a calendar date in any of the nine layouts
\* parses to that date.
C18_EveryLayoutGivesTheDate ==
    (/\ call.fn = "parse_date"
     /\ call.layout \in NineLayouts
     /\ call.denotes # NoDate) =>
        out.date = call.denotes

\* C18: the rendering of a calendar date in any of the nine layouts but
\* day/month/year parses to that date; the day/month/year rendering parses to
\* that date when the day is above 12 or equals the month, and otherwise to
\* the date with day and month exchanged, because month/day/year is tried
\* first.
C18_LayoutsAgreeButDayMonthYear ==
    (/\ call.fn = "parse_date"
     /\ call.layout \in NineLayouts
     /\ call.denotes # NoDate) =>
        LET a == call.denotes
        IN  IF call.layout = "%d/%m/%Y" /\ a.d <= 12
            THEN out.date = [y |-> a.y, m |-> a.d, d |-> a.m]
            ELSE out.date = a

C18_Witness ==
    /\ call.fn = "parse_date"
    /\ call.layout = "%d/%m/%Y"
    /\ call.denotes = [y |-> 2027, m |-> 5, d |-> 2]
    /\ out.date = [y |-> 2027, m |-> 2, d |-> 5]


\* C19: the conversation state is created fresh for every query.  Each call
\* of process_query starts with exactly two messages, the system instruction
\* and that call's user message, with empty tool_calls and tool_outputs and
\* the marker "call_model"; afterwards the state holds those two messages,
\* one assistant message per model call of this query and at most one tool
\* message per tool call requested in this query, so nothing of an earlier
\* query appears in it.
C19_StateFreshPerQuery ==
    queries >= 1 =>
        /\ Len(messages) >= 2
        /\ SubSeq(messages, 1, 2) =
              <<[role |-> "system", content |-> system_message],
                [role |-> "user", content |-> UserQueryNo(queries)]>>
        /\ Len(WithRole(messages, "system")) = 1
        /\ Len(WithRole(messages, "user")) = 1
        /\ Len(WithRole(messages, "assistant")) = rounds
        /\ Len(WithRole(messages, "tool")) <= used
        /\ rounds = 0 =>
            /\ Len(messages) = 2
            /\ tool_calls = <<>>
            /\ tool_outputs = <<>>
            /\ next = "call_model"

C19_Witness ==
    /\ queries = 2
    /\ pc = "invoke"
    /\ rounds = 0
    /\ Len(messages) = 2
    /\ messages[2].content = UserQueryNo(2)
    /\ messages[2].content # UserQueryNo(1)


(* The itinerary carried through the loop in a tool message. *)
ItineraryKeys == {"title", "morning", "afternoon", "evening", "accommodation", "notes"}

\* the day records plan_itinerary generated in the call whose result became
\* the text of a tool message
GeneratedDays(content) ==
    LET plans == {q \in LoopRequests \cup SecondRequests :
                    /\ q.name = "plan_itinerary"
                    /\ q.arguments.json = "object"
                    /\ BindsTo(q.name, q.arguments.value)}
        made(p) == execute(p[1].name, p[1].arguments.value, p[2], today)
    IN  {made(p).data : p \in {c \in plans \X Worlds : Str(made(c)) = content}}

\* C21: when plan_itinerary runs as a tool inside the loop, the records that
\* process_query extracts from the stored tool message are as many as the
\* generated day records, and each has the same title, morning, afternoon,
\* evening, accommodation and notes as the generated record at that position.
C21_ItineraryRoundTripInLoop ==
    (pc = "returned" /\ ret.kind = "value" /\ ret.data_type = Some("itinerary")) =>
        LET shown == WithRole(messages, "tool")
            plans == SelectSeq(shown, LAMBDA m : m.name = "plan_itinerary")
        IN  \A days \in GeneratedDays(Last(plans).content) :
                /\ Len(ret.data.val) = Len(days)
                /\ \A i \in DOMAIN days : \A k \in ItineraryKeys \cap DOMAIN days[i] :
                        /\ k \in DOMAIN ret.data.val[i]
                        /\ ret.data.val[i][k] = days[i][k]


\* C22: every flight record formatted by extract_flight_info and extracted
\* back by extract_flight_data_from_output has a price, and it equals the
\* generated price multiplied by 83.
C22_PriceTimesFactor ==
    (call.fn = "extract_flight_info" /\ out.tag = "flight") =>
        LET back == extract_flight_data_from_output(out.text)
        IN  /\ back.ok
            /\ Len(back.val) = Len(out.data)
            /\ \A i \in DOMAIN out.data :
                    /\ "price" \in DOMAIN back.val[i]
                    /\ back.val[i].price = out.data[i].price * 83


\* C23: in the fallback of utils.parse_date a numeric date without a month
\* name is read day before month: for a string "A.B.YYYY" the components
\* are day A and month B, and a calendar date written that way parses to it.
C23_FallbackReadsDayFirst ==
    (call.fn = "parse_date" /\ call.layout = "%d.%m.%Y") =>
        LET c == extract_date_components(call.date_str)
        IN  /\ c.day = call.date_str.f1
            /\ c.month = call.date_str.f2
            /\ call.denotes # NoDate => out.date = call.denotes


(* Properties of utils.extract_duration_from_text called on its own. *)
NumericDurations(toks) ==
    {NatOf(toks[i]) : i \in {j \in DOMAIN toks : \E p \in Range(duration_patterns) :
                                 DurationMatchAt(toks, j, p.hyphen, p.unit)}}

\* C24: extract_duration_from_text returns N for a text with a numeric
\* "N days" or "N nights"; for a text without a numeric duration it returns
\* 2 when the text contains "weekend", 14 for "two week" / "2 week", 7 for
\* "week" / "one week", and None otherwise.
C24_DurationFromText ==
    call.fn = "extract_duration_from_text" =>
        LET t == call.text
            one == HasBeforeWeek(t, "one") \/ HasBeforeWeek(t, "1")
            two == HasBeforeWeek(t, "two") \/ HasBeforeWeek(t, "2")
        IN  IF NumericDurations(t) # {}
            THEN out.value \in {Some(n) : n \in NumericDurations(t)}
            ELSE IF \E i \in DOMAIN t : LowerWord(t[i]) = "weekend"
            THEN out.value = Some(2)
            ELSE IF HasWeek(t)
            THEN /\ out.value \in {Some(7), Some(14)}
                 /\ (two /\ ~one) => out.value = Some(14)
                 /\ ~two => out.value = Some(7)
            ELSE out.value = None


(* Properties of web_search_flights under network failures. *)
Shows(text, part) ==
    \E k \in 0..(Len(text) - Len(part)) : SubSeq(text, k + 1, k + Len(part)) = part

ShowsEveryResult(text, organic) ==
    \A i \in DOMAIN organic : Shows(text, ResultLines(i, organic[i]))

\* C25: web_search_flights always returns a text.  When the search call is
\* made and fails (it raises or answers with a status other than 200) the
\* text is an error string.  When the search succeeds and the page fetch
\* raises, the text holds every compiled search result and the note "Could
\* not fetch detailed information"; when the page fetch answers with a
\* status other than 200, the text holds the compiled results and no detail.
C25_SearchDegradesGracefully ==
    call.fn = "web_search_flights" =>
        LET env == call.env
            fetched == /\ net = <<"POST search", "GET page">>
                       /\ env.search = "200"
        IN  /\ out.text # <<>>
            /\ (net # <<>> /\ env.search # "200") =>
                   /\ out.text[1] \in {"Error searching for flight information: ",
                                       "Error searching for flight information: HTTP "}
                   /\ net = <<"POST search">>
            /\ (fetched /\ env.fetch = "raise") =>
                   /\ ShowsEveryResult(out.text, env.organic)
                   /\ "Could not fetch detailed information: " \in Range(out.text)
                   /\ "Detailed information from top result:" \notin Range(out.text)
            /\ (fetched /\ env.fetch \notin {"200", "raise"}) =>
                   /\ ShowsEveryResult(out.text, env.organic)
                   /\ "Could not fetch detailed information: " \notin Range(out.text)
                   /\ "Detailed information from top result:" \notin Range(out.text)

C25_Witness ==
    /\ call.fn = "web_search_flights"
    /\ call.env.fetch = "raise"
    /\ Len(call.env.organic) = 2
    /\ net = <<"POST search", "GET page">>
    /\ "Could not fetch detailed information: " \in Range(out.text)
    /\ "URL: " \in Range(out.text)


\* the state is the one an execute_tools step has just produced
AfterExecuteTools == next = "call_model" /\ rounds >= 1

\* C26: after each execute_tools step tool_outputs holds exactly the results
\* of the most recent batch of requests, one entry per request with that
\* request's identifier, the tool name and a text, and nothing of earlier
\* batches; the same entries are the end of the message sequence, and the
\* tool messages of all earlier batches are still in it.
C26_ToolOutputsAreLastBatch ==
    AfterExecuteTools =>
        LET n == Len(tool_outputs)
            shown == WithRole(messages, "tool")
        IN  /\ n = Len(tool_calls)
            /\ n >= 1
            /\ \A k \in 1..n :
                   /\ tool_outputs[k].tool_call_id = tool_calls[k].id
                   /\ tool_outputs[k].tool_call_id =
                         "call_" \o ToString(rounds) \o "_" \o ToString(k)
                   /\ tool_outputs[k].name = tool_calls[k].name
                   /\ tool_outputs[k].role = "tool"
                   /\ tool_outputs[k].content # <<>>
            /\ SubSeq(messages, Len(messages) - n + 1, Len(messages)) = tool_outputs
            /\ Len(shown) = used
            /\ \A r \in 1..rounds : \E m \in Range(shown) :
                   m.tool_call_id = "call_" \o ToString(r) \o "_1"

C26_Witness ==
    /\ AfterExecuteTools
    /\ pc = "invoke"
    /\ rounds = 2
    /\ Len(tool_outputs) = 1
    /\ tool_outputs[1].tool_call_id = "call_2_1"
    /\ Len(WithRole(messages, "tool")) = 2
    /\ messages[4].tool_call_id = "call_1_1"


Roles(msgs) == [i \in DOMAIN msgs |-> msgs[i].role]

\* C27: in every reachable state of the loop the transcript is the system
\* message, the user message, then rounds of one assistant message followed
\* by one or more tool messages, possibly with the assistant message of the
\* round in progress at the end; when the loop has ended its last message is
\* an assistant message, so process_query never returns the fallback text
\* "No response generated" after a completed loop.
C27_TranscriptShape ==
    queries >= 1 =>
        LET r == Roles(messages)
        IN  /\ Len(r) >= 2
            /\ r[1] = "system"
            /\ r[2] = "user"
            /\ \A i \in 3..Len(r) : r[i] \in {"assistant", "tool"}
            /\ Len(r) >= 3 => r[3] = "assistant"
            /\ \A i \in 4..Len(r) : r[i] = "assistant" => r[i - 1] = "tool"
            /\ (node = END \/ pc = "returned") => r[Len(r)] = "assistant"
            /\ pc = "returned" =>
                   /\ ret.kind = "value"
                   /\ ret.text = messages[Len(r)].content
                   /\ ret.text # <<"No response generated">>

C27_Witness ==
    /\ pc = "returned"
    /\ Roles(messages) = <<"system", "user", "assistant", "tool", "tool", "assistant">>
    /\ ret.text = <<"reply 2">>


DataTools == {"extract_flight_info", "plan_itinerary"}

DataTypeOf(name) == IF name = "extract_flight_info" THEN "flight" ELSE "itinerary"

Extraction(m) ==
    IF m.name = "extract_flight_info" THEN extract_flight_data_from_output(m.content)
    ELSE extract_itinerary_data_from_output(m.content)

\* the tool messages of the two data tools, and those of them whose
\* extraction completes
NamedOutputs == SelectSeq(WithRole(messages, "tool"), LAMBDA m : m.name \in DataTools)

ExtractedOutputs == SelectSeq(NamedOutputs, LAMBDA m : Extraction(m).ok)

\* C28 as stated: the data type process_query returns is the one named by
\* the last tool message of extract_flight_info or plan_itinerary, and None
\* exactly when the transcript has no such message.
C28_TypeFromLastToolName ==
    (pc = "returned" /\ ret.kind = "value") =>
        IF NamedOutputs = <<>> THEN ret.data_type = None
        ELSE ret.data_type = Some(DataTypeOf(Last(NamedOutputs).name))

\* What lines 297-311 compute: the data type and the data are those of the
\* last tool message of extract_flight_info or plan_itinerary whose
\* extraction did not raise, whatever tag the tool returned (a past-date
\* rejection gives "flight" with an empty list); both are None when there is
\* no such message.
TypeFromLastExtractedOutput ==
    (pc = "returned" /\ ret.kind = "value") =>
        IF ExtractedOutputs = <<>> THEN ret.data_type = None /\ ret.data = None
        ELSE LET m == Last(ExtractedOutputs)
             IN  /\ ret.data_type = Some(DataTypeOf(m.name))
                 /\ ret.data = Some(Extraction(m).val)

\* two calls of extract_flight_info, the first with flights and the last
\* rejected for a past date
LastCallSuppliesData ==
    /\ pc = "returned"
    /\ ret.kind = "value"
    /\ Len(NamedOutputs) = 2
    /\ \A i \in 1..2 : NamedOutputs[i].name = "extract_flight_info"
    /\ Extraction(NamedOutputs[1]).val # <<>>
    /\ ret.data_type = Some("flight")
    /\ ret.data = Some(<<>>)


\* minutes since midnight of an "HH:MM" text, minutes of an "Xh Ym" text
ClockMinutes(t) ==
    LET c == CHOOSE c \in (0..23) \X (0..59) : Pad2(c[1]) \o ":" \o Pad2(c[2]) = t
    IN  c[1] * 60 + c[2]

SpanMinutes(d) ==
    LET c == CHOOSE c \in (0..9) \X (0..59) :
                 ToString(c[1]) \o "h " \o ToString(c[2]) \o "m" = d
    IN  c[1] * 60 + c[2]

\* C29: every generated flight record arrives at its departure time plus
\* its duration on the 24-hour clock, the minutes carrying into the hours.
C29_ArrivalIsDeparturePlusDuration ==
    (call.fn = "extract_flight_info" /\ out.tag = "flight") =>
        \A i \in DOMAIN out.data :
            ClockMinutes(out.data[i].arrival_time)
                = (ClockMinutes(out.data[i].departure_time)
                       + SpanMinutes(out.data[i].duration)) % 1440


\* the stored flight data and itinerary data are never both set
DataNeverBothSet ==
    session_state.flight_data = None \/ session_state.itinerary_data = None

\* a response step stores non-empty data of its type and clears the other
\* entry, and leaves both entries as they were when there is no data
DataFollowsResult ==
    [][(pc = "invoke" /\ pc' = "returned") =>
          /\ (ret'.data_type = Some("flight") /\ Truthy(ret'.data)) =>
                 /\ session_state'.flight_data = ret'.data
                 /\ session_state'.itinerary_data = None
          /\ (ret'.data_type = Some("itinerary") /\ Truthy(ret'.data)) =>
                 /\ session_state'.itinerary_data = ret'.data
                 /\ session_state'.flight_data = None
          /\ ~Truthy(ret'.data) =>
                 /\ session_state'.flight_data = session_state.flight_data
                 /\ session_state'.itinerary_data = session_state.itinerary_data]_vars

\* C30: in the page session the flight data and the itinerary data are never
\* both set, and once the handler of a prompt is over the chat history
\* holds, for each prompt so far, one user entry followed by one assistant
\* entry.
C30_SessionDataAndHistory ==
    /\ DataNeverBothSet
    /\ pc # "invoke" =>
           /\ Len(session_state.messages) = 2 * queries
           /\ \A i \in DOMAIN session_state.messages :
                  session_state.messages[i].role
                      = (IF i % 2 = 1 THEN "user" ELSE "assistant")

=============================================================================
